---- MODULE Spec2Model ----
(***************************************************************************)
(* The dispatcher loop (CPU.run), the process life cycle (Process.run_for),*)
(* the I/O manager and the five schedulers (Simple, Round-Robin, MLFQ,     *)
(* Lottery, CFS) of the simulator.                                         *)
(***************************************************************************)
EXTENDS Integers, Sequences, FiniteSets, TLC

(* ---------------------------------------------------------------------- *)
(* Bounds of the model                                                     *)
(* ---------------------------------------------------------------------- *)
NumProcs == 2
MaxWork == 3
MaxHeld == 2
MaxTotalWork == 5
MaxTickets == 3
NumTicketHolders == 3
\* the calls of malloc one client of a heap allocator makes
MaxMallocs == 4
\* the processes of one client of the MLFQ scheduler, and the last tick of
\* its clock
NumQueued == 3
MaxClock == 4

(* ---------------------------------------------------------------------- *)
(* Program constants                                                       *)
(* ---------------------------------------------------------------------- *)
MinServiceTime == 2
MaxServiceTime == 5
DefaultTickets == 10
IdleTick == 1
MinEffectiveRun == 1

Pids == 1..NumProcs
ProcessState == {"READY", "RUNNING", "WAITING", "TERMINATED"}

\* io_probability in percent; random.random() is a draw from [0, 1)
IoProbabilities == {0, 30, 100}
RandomDraws == {0, 50, 99}

VARIABLES
    scheduler,                  \* the scheduler object (all its fields)
    state,                      \* Process.state, per pid
    time_to_completion,         \* Process.time_to_completion, per pid
    cumulative_time_ran,        \* Process.cumulative_time_ran, per pid
    io_probability,             \* Process.io_probability, per pid
    initial_time_to_completion, \* the time_to_completion given to Process()
    process_table,              \* Process.process_table (its pids)
    global_clock,               \* CPU.global_clock
    waiting_processes,          \* IOManager.waiting_processes
    next_free_time,             \* IOManager.next_free_time
    pc,                         \* position in CPU.run / last call of a client
    process,                    \* CPU.run's local: the process being dispatched
    time_to_run,                \* CPU.run's local: the quantum
    time_ran,                   \* CPU.run's local: what run_for returned
    ready_processes,            \* what the last IOManager.update returned
    failure,                    \* the exception that ended the last call
    allocator,                  \* the heap allocator object (all its fields)
    pointers,                   \* the pointers malloc returned, not yet freed
    malloc_calls                \* the calls of malloc the client has made

vars == <<scheduler, state, time_to_completion, cumulative_time_ran,
          io_probability, initial_time_to_completion, process_table,
          global_clock, waiting_processes, next_free_time, pc, process,
          time_to_run, time_ran, ready_processes, failure, allocator,
          pointers, malloc_calls>>

procVars == <<state, time_to_completion, cumulative_time_ran, io_probability,
              initial_time_to_completion, process_table>>
ioVars == <<waiting_processes, next_free_time>>
localVars == <<process, time_to_run, time_ran>>
heapVars == <<allocator, pointers, malloc_calls>>

\* no heap allocator has been built
NoAllocator == [kind |-> "none"]
NoHeap == allocator = NoAllocator /\ pointers = {} /\ malloc_calls = 0

(* ---------------------------------------------------------------------- *)
(* Python containers                                                       *)
(* ---------------------------------------------------------------------- *)
Min(a, b) == IF a <= b THEN a ELSE b
Max(a, b) == IF a >= b THEN a ELSE b

\* dict: a function on the set of its keys
EmptyDict == [k \in {} |-> 0]
DictPut(d, k, v) == [x \in (DOMAIN d) \cup {k} |-> IF x = k THEN v ELSE d[x]]

\* insertion-ordered dict: a sequence of <<key, value>>; assigning to a key
\* that is present keeps its position
OrdKeys(od) == {od[i][1] : i \in 1..Len(od)}
OrdPut(od, k, v) ==
    IF k \in OrdKeys(od)
    THEN [i \in 1..Len(od) |-> IF od[i][1] = k THEN <<k, v>> ELSE od[i]]
    ELSE Append(od, <<k, v>>)
OrdPop(od, k) == SelectSeq(od, LAMBDA e : e[1] # k)
OrdGet(od, k, default) ==
    IF k \in OrdKeys(od)
    THEN (CHOOSE e \in {od[i] : i \in 1..Len(od)} : e[1] = k)[2]
    ELSE default

SeqToSet(s) == {s[i] : i \in 1..Len(s)}

(* ---------------------------------------------------------------------- *)
(* Schedulers.  One record holds the fields of whichever class was built;  *)
(* the fields of the other classes stay at their blank values.             *)
(* ---------------------------------------------------------------------- *)
BlankScheduler ==
    [kind |-> "Simple",
     \* SimpleScheduler, RoundRobinScheduler
     quantum |-> 0, queue |-> <<>>,
     \* MultiLevelFeedbackQueueScheduler
     levels |-> <<>>, boost_threshold |-> 0, queues |-> <<>>,
     process_levels |-> EmptyDict, process_time_in_level |-> EmptyDict,
     process_previous_cumulative_runtime |-> EmptyDict,
     process_last_boost |-> EmptyDict,
     \* LotteryScheduler
     default_quantum |-> 0, processes |-> <<>>, tickets |-> <<>>,
     total_tickets |-> 0,
     \* CompletelyFairScheduler
     base_quantum |-> 0, min_quantum |-> 0, virtual_tree |-> {},
     id_to_vruntime |-> EmptyDict]

SimpleScheduler == [BlankScheduler EXCEPT !.kind = "Simple"]

RoundRobinScheduler(quantum) ==
    [BlankScheduler EXCEPT !.kind = "RoundRobin", !.quantum = quantum]

MultiLevelFeedbackQueueScheduler(quanta, boost_threshold) ==
    [BlankScheduler EXCEPT !.kind = "MLFQ", !.levels = quanta,
                           !.boost_threshold = boost_threshold,
                           !.queues = [i \in 1..Len(quanta) |-> <<>>]]

LotteryScheduler(default_quantum) ==
    [BlankScheduler EXCEPT !.kind = "Lottery",
                           !.default_quantum = default_quantum]

CompletelyFairScheduler(base_quantum, min_quantum) ==
    [BlankScheduler EXCEPT !.kind = "CFS", !.base_quantum = base_quantum,
                           !.min_quantum = min_quantum]

\* The schedulers a run is started with: the defaults of each class and one
\* configuration with small quanta, so that quanta expire within MaxWork.
Schedulers ==
    {SimpleScheduler,
     RoundRobinScheduler(3), RoundRobinScheduler(2),
     MultiLevelFeedbackQueueScheduler(<<3, 6, 12>>, 50),
     MultiLevelFeedbackQueueScheduler(<<1, 2>>, 3),
     LotteryScheduler(5), LotteryScheduler(2),
     CompletelyFairScheduler(10, 2), CompletelyFairScheduler(2, 2)}

\* A plausible slip: the head is read (queue[0]) but not removed
popleft_peek(q) == q

\* deque.popleft(): what is left of the queue
popleft(q) == Tail(q)

\* A plausible slip: CFS looks at its side table instead of the tree
has_processes_side_table(s) ==
    CASE s.kind \in {"Simple", "RoundRobin"} -> s.queue # <<>>
      [] s.kind = "MLFQ" -> \E i \in 1..Len(s.queues) : s.queues[i] # <<>>
      [] s.kind = "Lottery" -> Len(s.processes) > 0
      [] s.kind = "CFS" -> Cardinality(DOMAIN s.id_to_vruntime) > 0

\* ---- has_processes ----
has_processes(s) ==
    CASE s.kind \in {"Simple", "RoundRobin"} -> s.queue # <<>>
      [] s.kind = "MLFQ" -> \E i \in 1..Len(s.queues) : s.queues[i] # <<>>
      [] s.kind = "Lottery" -> Len(s.processes) > 0
      [] s.kind = "CFS" -> Cardinality(s.virtual_tree) > 0

\* ---- get_alloted_time ----
\* A plausible slip: the simple scheduler slices like round robin does by
\* default
get_alloted_time_sliced(s, pid, ttc) ==
    CASE s.kind = "Simple" -> 3
      [] s.kind = "RoundRobin" -> s.quantum
      [] s.kind = "MLFQ" ->
            s.levels[(IF pid \in DOMAIN s.process_levels
                      THEN s.process_levels[pid] ELSE 0) + 1]
      [] s.kind = "Lottery" -> s.default_quantum
      [] s.kind = "CFS" ->
            Max(s.base_quantum \div (Cardinality(s.virtual_tree) + 1),
                s.min_quantum)

\* A plausible slip: round robin grants one tick more than its quantum
get_alloted_time_generous(s, pid, ttc) ==
    CASE s.kind = "Simple" -> ttc
      [] s.kind = "RoundRobin" -> s.quantum + 1
      [] s.kind = "MLFQ" ->
            s.levels[(IF pid \in DOMAIN s.process_levels
                      THEN s.process_levels[pid] ELSE 0) + 1]
      [] s.kind = "Lottery" -> s.default_quantum
      [] s.kind = "CFS" ->
            Max(s.base_quantum \div (Cardinality(s.virtual_tree) + 1),
                s.min_quantum)

\* A plausible slip: the picked process, already out of the tree, is counted
\* once more
fair_share_with_picked(base_quantum, in_tree) == base_quantum \div (in_tree + 2)

\* self.base_quantum // (len(self.virtual_tree) + 1)
fair_share(base_quantum, in_tree) == base_quantum \div (in_tree + 1)

get_alloted_time(s, pid, ttc) ==
    CASE s.kind = "Simple" -> ttc
      [] s.kind = "RoundRobin" -> s.quantum
      [] s.kind = "MLFQ" ->
            s.levels[(IF pid \in DOMAIN s.process_levels
                      THEN s.process_levels[pid] ELSE 0) + 1]
      [] s.kind = "Lottery" -> s.default_quantum
      [] s.kind = "CFS" ->
            Max(fair_share(s.base_quantum, Cardinality(s.virtual_tree)),
                s.min_quantum)

\* ---- MLFQ.update_usage_time ----
\* A plausible slip: the quantum has to be exceeded, not reached
quantum_exhausted_strict(in_level, quantum) == in_level > quantum

\* if self.process_time_in_level[pid] >= self.levels[current_level]
quantum_exhausted(in_level, quantum) == in_level >= quantum

\* A plausible slip: the last level is never entered
can_demote_short(current_level, levels) == current_level < Len(levels) - 2

\* if current_level < len(self.levels) - 1
can_demote(current_level, levels) == current_level < Len(levels) - 1

update_usage_time(s, pid, time_used) ==
    LET current_level == IF pid \in DOMAIN s.process_levels
                         THEN s.process_levels[pid] ELSE 0
        in_level == (IF pid \in DOMAIN s.process_time_in_level
                     THEN s.process_time_in_level[pid] ELSE 0) + time_used
        quantum == s.levels[current_level + 1]
    IN  IF quantum_exhausted(in_level, quantum)
        THEN [s EXCEPT
                !.process_levels =
                    IF can_demote(current_level, s.levels)
                    THEN DictPut(@, pid, current_level + 1) ELSE @,
                !.process_time_in_level = DictPut(@, pid, 0)]
        ELSE [s EXCEPT !.process_time_in_level = DictPut(@, pid, in_level)]

\* ---- CFS: order of the keys (vruntime, pid) of the SortedDict ----
\* A plausible slip: the keys are ordered by pid alone
KeyLEByPid(a, b) == a[2] <= b[2]

KeyLE(a, b) == a[1] < b[1] \/ (a[1] = b[1] /\ a[2] <= b[2])
peekitem0(tree) == CHOOSE k \in tree : \A k2 \in tree : KeyLE(k, k2)

\* ---- CFS.add_process: the vruntime a process is admitted with ----
\* A plausible slip: the minimum of the tree is not looked at
unclamped_vruntime(cumulative, tree) == cumulative

\* max(process.cumulative_time_ran, min_vruntime), or cumulative_time_ran
\* when the tree is empty
clamped_vruntime(cumulative, tree) ==
    IF tree # {} THEN Max(cumulative, peekitem0(tree)[1]) ELSE cumulative

\* ---- MLFQ.add_process: the time run since the last admission ----
\* A plausible slip: the runtime recorded at the last admission is not
\* subtracted
time_used_total(cumulative, previous) == cumulative

\* time_used = process.cumulative_time_ran - prev_cumulative
time_used(cumulative, previous) == cumulative - previous

\* ---- deque.append ----
\* A plausible slip: appendleft
appendleft(queue, pid) == <<pid>> \o queue

append(queue, pid) == Append(queue, pid)

\* A plausible slip: "=" for "+=", so that the total is the last ticket count
add_process_tickets_assigned(s, pid, tickets) ==
    [s EXCEPT !.processes = OrdPut(@, pid, pid),
              !.tickets = OrdPut(@, pid, tickets),
              !.total_tickets = tickets]

\* ---- LotteryScheduler.add_process(process, tickets) after its assertion ----
add_process_tickets(s, pid, tickets) ==
    [s EXCEPT !.processes = OrdPut(@, pid, pid),
              !.tickets = OrdPut(@, pid, tickets),
              !.total_tickets = @ + tickets]

\* ---- add_process: the assertion at its head ----
\* CompletelyFairScheduler.add_process has no assertion on the state.
add_process_raises(s, process_state) ==
    s.kind # "CFS" /\ process_state # "READY"

\* ---- add_process: the body after the assertion ----
add_process(s, pid, cumulative, curr_time) ==
    CASE s.kind \in {"Simple", "RoundRobin"} ->
            [s EXCEPT !.queue = append(@, pid)]
      [] s.kind = "MLFQ" ->
            LET s1 == IF pid \notin DOMAIN s.process_levels
                      THEN [s EXCEPT
                              !.process_levels = DictPut(@, pid, 0),
                              !.process_time_in_level = DictPut(@, pid, 0),
                              !.process_last_boost = DictPut(@, pid, curr_time)]
                      ELSE update_usage_time(s, pid,
                              time_used(cumulative,
                                  s.process_previous_cumulative_runtime[pid]))
                s2 == [s1 EXCEPT !.process_previous_cumulative_runtime =
                                     DictPut(@, pid, cumulative)]
                level == s2.process_levels[pid]
            IN  [s2 EXCEPT !.queues[level + 1] = append(@, pid)]
      [] s.kind = "Lottery" ->
            add_process_tickets(s, pid, DefaultTickets)
      [] s.kind = "CFS" ->
            LET v == clamped_vruntime(cumulative, s.virtual_tree)
            IN  [s EXCEPT !.id_to_vruntime = DictPut(@, pid, v),
                          !.virtual_tree = @ \cup {<<v, pid>>}]

\* ---- cleanup ----
\* A plausible slip: only a process still in the table is looked at, and a
\* terminated one never is
GoneInTable(pid, st, table) == pid \in table /\ st[pid] = "TERMINATED"

\* process is None or process.is_terminated()
Gone(pid, st, table) == pid \notin table \/ st[pid] = "TERMINATED"

cleanup(s, st, table) ==
    CASE s.kind \in {"Simple", "RoundRobin"} -> s
      [] s.kind = "MLFQ" ->
            LET dead == {pid \in DOMAIN s.process_levels : Gone(pid, st, table)}
                Drop(d) == [x \in (DOMAIN d) \ dead |-> d[x]]
            IN  [s EXCEPT
                   !.queues = [i \in 1..Len(s.queues) |->
                                 SelectSeq(s.queues[i],
                                           LAMBDA p : st[p] # "TERMINATED")],
                   !.process_levels = Drop(@),
                   !.process_time_in_level = Drop(@),
                   !.process_previous_cumulative_runtime = Drop(@),
                   !.process_last_boost = Drop(@)]
      [] s.kind = "Lottery" ->
            LET dead == {pid \in OrdKeys(s.processes) : Gone(pid, st, table)}
                Sum[i \in 0..Len(s.tickets)] ==
                    IF i = 0 THEN 0
                    ELSE Sum[i - 1] + (IF s.tickets[i][1] \in dead
                                       THEN s.tickets[i][2] ELSE 0)
            IN  [s EXCEPT
                   !.processes = SelectSeq(@, LAMBDA e : e[1] \notin dead),
                   !.tickets = SelectSeq(@, LAMBDA e : e[1] \notin dead),
                   !.total_tickets = @ - Sum[Len(s.tickets)]]
      [] s.kind = "CFS" ->
            LET deadKeys == {k \in s.virtual_tree : Gone(k[2], st, table)}
                dead == {pid \in DOMAIN s.id_to_vruntime : Gone(pid, st, table)}
            IN  [s EXCEPT
                   !.virtual_tree = @ \ deadKeys,
                   !.id_to_vruntime = [x \in (DOMAIN @) \ dead |-> @[x]]]

\* ---- MLFQ.auto_boost_processes ----
\* A plausible slip: the threshold has to be exceeded, not reached
boost_due_strict(curr_time, last_boost, boost_threshold) ==
    curr_time - last_boost > boost_threshold

\* if curr_time - last_boost >= self.boost_threshold
boost_due(curr_time, last_boost, boost_threshold) ==
    curr_time - last_boost >= boost_threshold

\* A plausible slip: a boosted process keeps the time of its old level
keep_time_in_level(in_level) == in_level

\* self.process_time_in_level[pid] = 0
reset_time_in_level(in_level) == 0

RECURSIVE BoostQueue(_, _, _, _)
BoostQueue(s, level, rest, curr_time) ==
    \* the while loop over one queue: s.queues[level + 1] is new_queue
    IF rest = <<>> THEN s
    ELSE LET pid == Head(rest)
             s1 == IF boost_due(curr_time, s.process_last_boost[pid],
                                s.boost_threshold)
                   THEN [s EXCEPT
                           !.process_levels = DictPut(@, pid, 0),
                           !.process_time_in_level =
                               DictPut(@, pid, reset_time_in_level(@[pid])),
                           !.process_last_boost = DictPut(@, pid, curr_time),
                           !.queues[1] = append(@, pid)]
                   ELSE [s EXCEPT !.queues[level + 1] = append(@, pid)]
         IN  BoostQueue(s1, level, Tail(rest), curr_time)

RECURSIVE BoostLevels(_, _, _)
BoostLevels(s, level, curr_time) ==
    \* for level in range(1, len(self.queues))
    IF level >= Len(s.queues) THEN s
    ELSE BoostLevels(BoostQueue([s EXCEPT !.queues[level + 1] = <<>>], level,
                                s.queues[level + 1], curr_time),
                     level + 1, curr_time)

auto_boost_processes(s, curr_time) == BoostLevels(s, 1, curr_time)

\* ---- Lottery: the loop over tickets.items(); 0 when no entry is reached ----
\* A plausible slip: the running sum has to exceed the winning ticket
ticket_wins_strict(winning_ticket, cum_sum) == winning_ticket < cum_sum

\* if winning_ticket <= cum_sum
ticket_wins(winning_ticket, cum_sum) == winning_ticket <= cum_sum

RECURSIVE LotteryWinner(_, _, _)
LotteryWinner(tickets, winning_ticket, cum_sum) ==
    IF tickets = <<>> THEN 0
    ELSE LET c == cum_sum + Head(tickets)[2]
         IN  IF ticket_wins(winning_ticket, c) THEN Head(tickets)[1]
             ELSE LotteryWinner(Tail(tickets), winning_ticket, c)

\* The values random.randint(1, total_tickets) can return in get_next_process
\* ({0} stands for "no draw is made": another class, or nothing to draw from)
WinningTickets(s, st, table) ==
    LET c == cleanup(s, st, table)
    IN  IF s.kind = "Lottery" /\ has_processes(c) /\ c.total_tickets >= 1
        THEN 1..c.total_tickets ELSE {0}

\* ---- get_next_process: the scheduler after the call, the process it ----
\* ---- returned (0: none) and the exception it raised                  ----
Picked(s, pid) == [sched |-> s, process |-> pid, raised |-> "none"]
Raised(s, exc) == [sched |-> s, process |-> 0, raised |-> exc]

FirstQueue(s) == CHOOSE i \in 1..Len(s.queues) :
                    s.queues[i] # <<>> /\ \A j \in 1..(i - 1) : s.queues[j] = <<>>

get_next_process(s, st, table, curr_time, winning_ticket) ==
    CASE s.kind \in {"Simple", "RoundRobin"} ->
            IF s.queue = <<>> THEN Raised(s, "Exception")
            ELSE Picked([s EXCEPT !.queue = popleft(@)], Head(s.queue))
      [] s.kind = "MLFQ" ->
            LET c == auto_boost_processes(cleanup(s, st, table), curr_time)
            IN  IF ~has_processes(c) THEN Raised(c, "Exception")
                ELSE Picked([c EXCEPT !.queues[FirstQueue(c)] = popleft(@)],
                            Head(c.queues[FirstQueue(c)]))
      [] s.kind = "Lottery" ->
            LET c == cleanup(s, st, table)
                w == LotteryWinner(c.tickets, winning_ticket, 0)
            IN  IF ~has_processes(c) THEN Raised(c, "Exception")
                ELSE IF c.total_tickets < 1 THEN Raised(c, "ValueError")
                ELSE IF w = 0 THEN Raised(c, "Exception")
                ELSE IF w \notin OrdKeys(c.processes) THEN Raised(c, "KeyError")
                ELSE Picked([c EXCEPT
                               !.processes = OrdPop(@, w),
                               !.tickets = OrdPop(@, w),
                               !.total_tickets = @ - OrdGet(c.tickets, w, 0)],
                            w)
      [] s.kind = "CFS" ->
            LET c == cleanup(s, st, table)
            IN  IF ~has_processes(c) THEN Raised(c, "Exception")
                ELSE Picked([c EXCEPT !.virtual_tree = @ \ {peekitem0(@)}],
                            peekitem0(c.virtual_tree)[2])

\* The pids held in the ready structure, and in the per-pid side tables
ReadyPids(s) ==
    CASE s.kind \in {"Simple", "RoundRobin"} -> SeqToSet(s.queue)
      [] s.kind = "MLFQ" -> UNION {SeqToSet(s.queues[i]) : i \in 1..Len(s.queues)}
      [] s.kind = "Lottery" -> OrdKeys(s.processes) \cup OrdKeys(s.tickets)
      [] s.kind = "CFS" -> {k[2] : k \in s.virtual_tree}

SideTablePids(s) ==
    CASE s.kind \in {"Simple", "RoundRobin"} -> {}
      [] s.kind = "MLFQ" ->
            (DOMAIN s.process_levels) \cup (DOMAIN s.process_time_in_level)
            \cup (DOMAIN s.process_previous_cumulative_runtime)
            \cup (DOMAIN s.process_last_boost)
      [] s.kind = "Lottery" -> {}
      [] s.kind = "CFS" -> DOMAIN s.id_to_vruntime

(* ---------------------------------------------------------------------- *)
(* I/O manager                                                             *)
(* ---------------------------------------------------------------------- *)
\* A plausible slip: an entry is released only after its completion tick
update_strict(waiting, clock_time) ==
    LET done == SelectSeq(waiting, LAMBDA e : clock_time > e[2])
    IN  [ready_processes |-> [i \in 1..Len(done) |-> done[i][1]],
         waiting_processes |-> SelectSeq(waiting, LAMBDA e : ~(clock_time > e[2]))]

\* IOManager.update: the processes whose completion has been reached, in the
\* order of the list, and the entries that stay
update(waiting, clock_time) ==
    LET done == SelectSeq(waiting, LAMBDA e : clock_time >= e[2])
    IN  [ready_processes |-> [i \in 1..Len(done) |-> done[i][1]],
         waiting_processes |-> SelectSeq(waiting, LAMBDA e : ~(clock_time >= e[2]))]

\* A plausible slip: the request starts at once, whatever is being served
CompletionTimeUnserialised(clock_time, free_time, io_service_time) ==
    clock_time + io_service_time

\* IOManager.add_waiting_process after its assertion
CompletionTime(clock_time, free_time, io_service_time) ==
    Max(clock_time, free_time) + io_service_time

ServiceTimes == MinServiceTime..MaxServiceTime

(* ---------------------------------------------------------------------- *)
(* The dispatcher: CPU.run                                                 *)
(* ---------------------------------------------------------------------- *)
\* for process in ...: self.scheduler.add_process(process)
RECURSIVE AdmitAll(_, _, _, _, _)
AdmitAll(s, list, st, cum, curr_time) ==
    IF list = <<>> THEN [sched |-> s, raised |-> "none"]
    ELSE IF add_process_raises(s, st[Head(list)])
         THEN [sched |-> s, raised |-> "AssertionError"]
         ELSE AdmitAll(add_process(s, Head(list), cum[Head(list)], curr_time),
                       Tail(list), st, cum, curr_time)

\* The processes of a run are created (pid 1, 2, ...) and admitted in pid
\* order before run() is called.  They are created with one io_probability,
\* as main() does; with 30 each dispatch of each process may or may not end
\* in I/O, so every interleaving of I/O and full runs is a behaviour.
RECURSIVE SumOver(_, _)
SumOver(f, S) ==
    IF S = {} THEN 0
    ELSE LET x == CHOOSE y \in S : TRUE IN f[x] + SumOver(f, S \ {x})

Init ==
    /\ time_to_completion \in [Pids -> 1..MaxWork]
    /\ SumOver(time_to_completion, Pids) <= MaxTotalWork
    /\ initial_time_to_completion = time_to_completion
    /\ \E probability \in IoProbabilities :
          io_probability = [p \in Pids |-> probability]
    /\ cumulative_time_ran = [p \in Pids |-> 0]
    /\ state = [p \in Pids |-> "READY"]
    /\ process_table = Pids
    /\ global_clock = 0
    /\ \E s0 \in Schedulers :
          scheduler = AdmitAll(s0, [i \in 1..NumProcs |-> i], state,
                               cumulative_time_ran, global_clock).sched
    /\ waiting_processes = <<>>
    /\ next_free_time = 0
    /\ pc = "while"
    /\ process = 0
    /\ time_to_run = 0
    /\ time_ran = 0
    /\ ready_processes = <<>>
    /\ failure = "none"
    /\ NoHeap

\* A plausible slip: the clock is assigned instead of incremented
increment_global_clock_assign(clock, time) == time

\* CPU.increment_global_clock
increment_global_clock(clock, time) == clock + time

\* The loop of the first draft of run(), which knows no I/O manager
LoopConditionSchedulerOnly(s, waiting) == has_processes(s)

\* while self.scheduler.has_processes() or self.io_manager.waiting_processes
LoopCondition(s, waiting) == has_processes(s) \/ waiting # <<>>

WhileTest ==
    /\ pc = "while"
    /\ pc' = IF LoopCondition(scheduler, waiting_processes)
             THEN "update" ELSE "done"
    /\ UNCHANGED <<scheduler, procVars, global_clock, ioVars, localVars,
                   ready_processes, failure>>
    /\ UNCHANGED heapVars

\* for process in self.io_manager.update(now): self.scheduler.add_process(process)
Update ==
    /\ pc = "update"
    /\ LET u == update(waiting_processes, global_clock)
           ready == u.ready_processes
           st == [p \in DOMAIN state |-> IF p \in SeqToSet(ready) THEN "READY"
                                 ELSE state[p]]
           r == AdmitAll(scheduler, ready, st, cumulative_time_ran, global_clock)
       IN  /\ ready_processes' = ready
           /\ waiting_processes' = u.waiting_processes
           /\ state' = st
           /\ scheduler' = r.sched
           /\ failure' = r.raised
           /\ pc' = IF r.raised = "none" THEN "dispatch" ELSE "aborted"
    /\ UNCHANGED <<time_to_completion, cumulative_time_ran, io_probability,
                   initial_time_to_completion, process_table, global_clock,
                   next_free_time, localVars>>
    /\ UNCHANGED heapVars

\* process = get_next_process(); process.state = RUNNING;
\* time_to_run = get_alloted_time(process)
Dispatch ==
    /\ pc = "dispatch"
    /\ has_processes(scheduler)
    /\ \E w \in WinningTickets(scheduler, state, process_table) :
          LET r == get_next_process(scheduler, state, process_table,
                                    global_clock, w)
          IN  /\ scheduler' = r.sched
              /\ failure' = r.raised
              /\ IF r.raised = "none"
                 THEN /\ process' = r.process
                      /\ state' = [state EXCEPT ![r.process] = "RUNNING"]
                      /\ time_to_run' =
                             get_alloted_time(r.sched, r.process,
                                              time_to_completion[r.process])
                      /\ pc' = "run_for"
                 ELSE /\ pc' = "aborted"
                      /\ UNCHANGED <<process, state, time_to_run>>
    /\ UNCHANGED <<time_to_completion, cumulative_time_ran, io_probability,
                   initial_time_to_completion, process_table, global_clock,
                   ioVars, time_ran, ready_processes>>
    /\ UNCHANGED heapVars

\* else: self.increment_global_clock(1)
Idle ==
    /\ pc = "dispatch"
    /\ ~has_processes(scheduler)
    /\ global_clock' = increment_global_clock(global_clock, IdleTick)
    /\ pc' = "while"
    /\ UNCHANGED <<scheduler, procVars, ioVars, localVars, ready_processes,
                   failure>>
    /\ UNCHANGED heapVars

\* Process.run_for after its assertion, for one value of random.random()
\* (draw) and one of random.randint(1, max_run - 1) (effective_run_time):
\* the time it returns and the fields of the process it leaves
IoEvent(draw, probability, max_run) == draw < probability /\ max_run > 1
\* A plausible slip: random.randint(1, max_run)
EffectiveRunTimesWhole(max_run) == 1..max_run

EffectiveRunTimes(max_run) == 1..(max_run - 1)

\* The run_for of the first draft: the I/O branch does not count the time ran
run_for_uncounted(ttc, cumulative, probability, time_slice, draw, effective_run_time) ==
    LET max_run == Min(time_slice, ttc)
    IN  IF IoEvent(draw, probability, max_run)
        THEN [ran |-> effective_run_time,
              time_to_completion |-> ttc - effective_run_time,
              cumulative_time_ran |-> cumulative,
              state |-> "WAITING"]
        ELSE [ran |-> max_run,
              time_to_completion |-> ttc - max_run,
              cumulative_time_ran |-> cumulative + max_run,
              state |-> IF ttc - max_run <= 0 THEN "TERMINATED" ELSE "RUNNING"]

\* A plausible slip: "<" for "<=", so that a finished process is not terminated
run_for_unterminated(ttc, cumulative, probability, time_slice, draw, effective_run_time) ==
    LET max_run == Min(time_slice, ttc)
    IN  IF IoEvent(draw, probability, max_run)
        THEN [ran |-> effective_run_time,
              time_to_completion |-> ttc - effective_run_time,
              cumulative_time_ran |-> cumulative + effective_run_time,
              state |-> "WAITING"]
        ELSE [ran |-> max_run,
              time_to_completion |-> ttc - max_run,
              cumulative_time_ran |-> cumulative + max_run,
              state |-> IF ttc - max_run < 0 THEN "TERMINATED" ELSE "RUNNING"]

run_for(ttc, cumulative, probability, time_slice, draw, effective_run_time) ==
    LET max_run == Min(time_slice, ttc)
    IN  IF IoEvent(draw, probability, max_run)
        THEN [ran |-> effective_run_time,
              time_to_completion |-> ttc - effective_run_time,
              cumulative_time_ran |-> cumulative + effective_run_time,
              state |-> "WAITING"]
        ELSE [ran |-> max_run,
              time_to_completion |-> ttc - max_run,
              cumulative_time_ran |-> cumulative + max_run,
              state |-> IF ttc - max_run <= 0 THEN "TERMINATED" ELSE "RUNNING"]

\* time_ran = process.run_for(time_to_run); increment_global_clock(time_ran)
\* runs: the values random.randint(1, max_run - 1) can return under the
\* random source in use
RunForWith(runs) ==
    /\ pc = "run_for"
    /\ IF state[process] # "RUNNING"
       THEN /\ failure' = "AssertionError"
            /\ pc' = "aborted"
            /\ UNCHANGED <<procVars, global_clock, time_ran>>
       ELSE LET max_run == Min(time_to_run, time_to_completion[process])
            IN  \E draw \in RandomDraws :
                  \E effective \in
                        IF IoEvent(draw, io_probability[process], max_run)
                        THEN {e \in EffectiveRunTimes(max_run) : e \in runs}
                        ELSE {0} :
                     LET r == run_for(time_to_completion[process],
                                      cumulative_time_ran[process],
                                      io_probability[process], time_to_run,
                                      draw, effective)
                     IN  /\ time_to_completion' =
                                [time_to_completion EXCEPT
                                    ![process] = r.time_to_completion]
                         /\ cumulative_time_ran' =
                                [cumulative_time_ran EXCEPT
                                    ![process] = r.cumulative_time_ran]
                         /\ state' = [state EXCEPT ![process] = r.state]
                         /\ process_table' =
                                IF r.state = "TERMINATED"
                                THEN process_table \ {process}
                                ELSE process_table
                         /\ time_ran' = r.ran
                         /\ global_clock' = increment_global_clock(global_clock, r.ran)
                         /\ pc' = "route"
                         /\ UNCHANGED <<io_probability,
                                        initial_time_to_completion, failure>>
    /\ UNCHANGED <<scheduler, ioVars, process, time_to_run, ready_processes>>
    /\ UNCHANGED heapVars

\* the random source is unconstrained
RunFor ==
    RunForWith(Nat)

\* if process.is_in_io_state(): add_waiting_process(process, now); continue
\* services: the values random.randint(2, 5) can return under the random
\* source in use
ParkWith(services) ==
    /\ pc = "route"
    /\ state[process] = "WAITING"
    /\ \E io_service_time \in ServiceTimes \cap services :
          LET completion_time == CompletionTime(global_clock, next_free_time,
                                                io_service_time)
          IN  /\ waiting_processes' =
                     Append(waiting_processes, <<process, completion_time>>)
              /\ next_free_time' = completion_time
    /\ pc' = "while"
    /\ UNCHANGED <<scheduler, procVars, global_clock, localVars,
                   ready_processes, failure>>
    /\ UNCHANGED heapVars

\* the random source is unconstrained
Park ==
    ParkWith(ServiceTimes)

\* elif process.is_terminated(): continue
Retire ==
    /\ pc = "route"
    /\ state[process] = "TERMINATED"
    /\ pc' = "while"
    /\ UNCHANGED <<scheduler, procVars, global_clock, ioVars, localVars,
                   ready_processes, failure>>
    /\ UNCHANGED heapVars

\* process.state = READY; self.scheduler.add_process(process)
Readmit ==
    /\ pc = "route"
    /\ state[process] \notin {"WAITING", "TERMINATED"}
    /\ state' = [state EXCEPT ![process] = "READY"]
    /\ scheduler' = add_process(scheduler, process,
                                cumulative_time_ran[process], global_clock)
    /\ pc' = "while"
    /\ UNCHANGED <<time_to_completion, cumulative_time_ran, io_probability,
                   initial_time_to_completion, process_table, global_clock,
                   ioVars, localVars, ready_processes, failure>>
    /\ UNCHANGED heapVars

Next ==
    \/ WhileTest
    \/ Update
    \/ Dispatch
    \/ Idle
    \/ RunFor
    \/ Park
    \/ Retire
    \/ Readmit

Spec == Init /\ [][Next]_vars

\* run() is one thread that is never suspended for ever
FairSpec == Spec /\ WF_vars(Next)

(* ---------------------------------------------------------------------- *)
(* Runs under a seeded random source.  Every random.randint returns the    *)
(* low end of its range: an I/O event cuts the run after MinEffectiveRun   *)
(* and the device serves it in MinServiceTime.  The work lists are those   *)
(* of the worked examples; all processes arrive at tick 0.                 *)
(* ---------------------------------------------------------------------- *)
SeededWorks ==
    {<<5>>, <<30>>, <<5, 4>>, <<5, 3, 7>>, <<4, 4>>, <<4, 4, 4>>}

SeededSchedulers ==
    {SimpleScheduler,
     RoundRobinScheduler(3), RoundRobinScheduler(2),
     MultiLevelFeedbackQueueScheduler(<<3, 6, 12>>, 50),
     LotteryScheduler(5),
     CompletelyFairScheduler(10, 2)}

SeededProbabilities == {0, 100}

InitSeeded ==
    \E work \in SeededWorks, probability \in SeededProbabilities,
       s0 \in SeededSchedulers :
        LET ids == DOMAIN work
            st == [p \in ids |-> "READY"]
            cum == [p \in ids |-> 0]
        IN  /\ time_to_completion = work
            /\ initial_time_to_completion = work
            /\ io_probability = [p \in ids |-> probability]
            /\ cumulative_time_ran = cum
            /\ state = st
            /\ process_table = ids
            /\ global_clock = 0
            /\ scheduler = AdmitAll(s0, [i \in 1..Len(work) |-> i], st, cum, 0).sched
            /\ waiting_processes = <<>>
            /\ next_free_time = 0
            /\ pc = "while"
            /\ process = 0
            /\ time_to_run = 0
            /\ time_ran = 0
            /\ ready_processes = <<>>
            /\ failure = "none"
            /\ NoHeap

RunForSeeded ==
    RunForWith({MinEffectiveRun})

ParkSeeded ==
    ParkWith({MinServiceTime})

NextSeeded ==
    \/ WhileTest
    \/ Update
    \/ Dispatch
    \/ Idle
    \/ RunForSeeded
    \/ ParkSeeded
    \/ Retire
    \/ Readmit

SpecSeeded == InitSeeded /\ [][NextSeeded]_vars

(* ---------------------------------------------------------------------- *)
(* Properties of a run                                                     *)
(* ---------------------------------------------------------------------- *)
Terminated == {p \in Pids : state[p] = "TERMINATED"}

\* C1: work conservation: for every process, cumulative_time_ran +
\* time_to_completion is the time_to_completion it was created with
WorkConservation ==
    \A p \in Pids :
        cumulative_time_ran[p] + time_to_completion[p]
            = initial_time_to_completion[p]

\* a process is parked after an I/O event that cut its run short, and
\* another one has run to its end
WorkConservationWitness ==
    /\ \E p \in Pids : /\ state[p] = "WAITING"
                       /\ cumulative_time_ran[p] > 0
                       /\ time_to_completion[p] > 0
    /\ Terminated # {}

\* C2: run() comes to return, with no ready process and an empty wait list
Termination ==
    <>(pc = "done" /\ ~has_processes(scheduler) /\ waiting_processes = <<>>)

\* run() has returned after a run with I/O and idle ticks
TerminationWitness ==
    /\ pc = "done"
    /\ Terminated = Pids
    /\ next_free_time > 0
    /\ global_clock > SumOver(cumulative_time_ran, Pids)

\* C3: a process changes state only READY->RUNNING (picked), RUNNING->WAITING
\* (I/O during its run), RUNNING->TERMINATED (work reaches 0), RUNNING->READY
\* (quantum expired, work remains), WAITING->READY (released by the I/O
\* manager); time_to_completion changes only by decreasing, in a RUNNING process
StateMachineStep(p) ==
    /\ \/ state'[p] = state[p]
       \/ /\ state[p] = "READY" /\ state'[p] = "RUNNING"
          /\ pc = "dispatch" /\ process' = p
       \/ /\ state[p] = "RUNNING" /\ state'[p] = "WAITING"
          /\ pc = "run_for" /\ process = p
       \/ /\ state[p] = "RUNNING" /\ state'[p] = "TERMINATED"
          /\ pc = "run_for" /\ process = p /\ time_to_completion'[p] = 0
       \/ /\ state[p] = "RUNNING" /\ state'[p] = "READY"
          /\ pc = "route" /\ process = p /\ time_to_completion[p] > 0
       \/ /\ state[p] = "WAITING" /\ state'[p] = "READY"
          /\ pc = "update" /\ p \in SeqToSet(ready_processes')
    /\ time_to_completion'[p] # time_to_completion[p] =>
          /\ state[p] = "RUNNING"
          /\ time_to_completion'[p] < time_to_completion[p]

StateMachine == [][\A p \in Pids : StateMachineStep(p)]_vars

\* one process is back from I/O and ready, another one has terminated
StateMachineWitness ==
    /\ pc = "dispatch"
    /\ ready_processes # <<>>
    /\ Terminated # {}
    /\ \E p \in Pids : state[p] = "READY" /\ cumulative_time_ran[p] > 0

\* C4: no call of get_next_process made by run() raises; each returns a process
NeverNoRunnable ==
    /\ failure = "none"
    /\ pc # "aborted"
    /\ pc = "run_for" => process \in Pids

\* a scheduler that cleans up before it picks has picked after a termination
NeverNoRunnableWitness ==
    /\ pc = "run_for"
    /\ scheduler.kind \in {"MLFQ", "Lottery", "CFS"}
    /\ Terminated # {}

\* C5: every process held in the ready structure of the scheduler is READY
ReadyStructureHoldsReady ==
    \A p \in ReadyPids(scheduler) : state[p] = "READY"

\* the ready structure holds a process while one runs and one has terminated
\* or waits
ReadyStructureHoldsReadyWitness ==
    /\ pc = "route"
    /\ ReadyPids(scheduler) # {}
    /\ state[process] \in {"WAITING", "TERMINATED"}

\* the processes that are TERMINATED or absent from the process table
Gones == {p \in Pids : state[p] = "TERMINATED" \/ p \notin process_table}

\* C6 as stated: from the moment a process is TERMINATED, or absent from the
\* process table, no ready structure and no per-pid side table holds its pid
TerminatedHeldNowhere ==
    Gones \cap (ReadyPids(scheduler) \cup SideTablePids(scheduler)) = {}

\* C6 as amended: a TERMINATED process stays TERMINATED, no ready structure
\* ever holds the pid of a terminated or absent process, and no side table
\* holds one when get_next_process has returned
TerminatedPruned ==
    /\ [](/\ Gones \cap ReadyPids(scheduler) = {}
          /\ pc = "run_for" => Gones \cap SideTablePids(scheduler) = {})
    /\ [][\A p \in Pids : state[p] = "TERMINATED" => state'[p] = "TERMINATED"]_vars

\* a scheduler with side tables has picked after a termination
TerminatedPrunedWitness ==
    /\ pc = "run_for"
    /\ scheduler.kind \in {"MLFQ", "CFS"}
    /\ Terminated # {}
    /\ SideTablePids(scheduler) # {}

\* C7: the clock never decreases; the step that runs a process advances it by
\* what run_for returned; an iteration that finds no ready process advances it
\* by one tick and changes no process, scheduler or wait-list state; no other
\* step changes it
ClockStep ==
    /\ global_clock' >= global_clock
    /\ pc = "run_for" /\ pc' = "route" => global_clock' = global_clock + time_ran'
    /\ pc = "update" /\ ~has_processes(scheduler') =>
          UNCHANGED <<scheduler, procVars, ioVars, global_clock>>
    /\ pc = "dispatch" /\ ~has_processes(scheduler) =>
          /\ global_clock' = global_clock + 1
          /\ UNCHANGED <<scheduler, procVars, ioVars>>
    /\ pc = "dispatch" /\ has_processes(scheduler) => global_clock' = global_clock
    /\ pc \notin {"run_for", "dispatch"} => global_clock' = global_clock

ClockMonotonic == [][ClockStep]_vars

\* the clock is ahead of the time the processes ran: idle ticks have passed
ClockMonotonicWitness ==
    /\ pc = "while"
    /\ global_clock > SumOver(cumulative_time_ran, Pids) + 1
    /\ Terminated # {}

\* C8: the wait list is in the order of the parks: a park appends at the tail,
\* an update releases a prefix of the list, in the order of the list, and
\* (Simple, Round-Robin) the released processes join the queue in that order
FcfsStep ==
    /\ pc = "update" =>
          \E k \in 0..Len(waiting_processes) :
             /\ ready_processes' = [i \in 1..k |-> waiting_processes[i][1]]
             /\ waiting_processes' =
                    SubSeq(waiting_processes, k + 1, Len(waiting_processes))
             /\ scheduler.kind \in {"Simple", "RoundRobin"} =>
                    scheduler'.queue = scheduler.queue \o ready_processes'
    /\ pc = "route" /\ state[process] = "WAITING" =>
          /\ Len(waiting_processes') = Len(waiting_processes) + 1
          /\ SubSeq(waiting_processes', 1, Len(waiting_processes))
                 = waiting_processes
          /\ waiting_processes'[Len(waiting_processes')][1] = process
    /\ ~(pc = "update") /\ ~(pc = "route" /\ state[process] = "WAITING") =>
          waiting_processes' = waiting_processes

DrainBeforeDispatch ==
    pc = "dispatch" =>
        /\ \A i \in 1..Len(waiting_processes) :
              waiting_processes[i][2] > global_clock
        /\ \A p \in SeqToSet(ready_processes) :
              state[p] = "READY" /\ p \in ReadyPids(scheduler)

\* an update has released one process and left another waiting
DrainBeforeDispatchWitness ==
    /\ pc = "dispatch"
    /\ ready_processes # <<>>
    /\ waiting_processes # <<>>

(* ---------------------------------------------------------------------- *)
(* The schedulers and the I/O manager called directly by a client, which   *)
(* may hand them a process in any state                                    *)
(* ---------------------------------------------------------------------- *)
\* What a scheduler holds, counted per admission
Held(s) ==
    CASE s.kind \in {"Simple", "RoundRobin"} -> Len(s.queue)
      [] s.kind = "MLFQ" -> SumOver([i \in 1..Len(s.queues) |-> Len(s.queues[i])],
                                    1..Len(s.queues))
      [] s.kind = "Lottery" -> s.total_tickets \div DefaultTickets
      [] s.kind = "CFS" -> Cardinality(s.virtual_tree)

\* A scheduler and an I/O manager are constructed, and the processes created
InitApi ==
    /\ time_to_completion = [p \in Pids |-> MaxWork]
    /\ initial_time_to_completion = time_to_completion
    /\ io_probability = [p \in Pids |-> 30]
    /\ cumulative_time_ran = [p \in Pids |-> 0]
    /\ state = [p \in Pids |-> "READY"]
    /\ process_table = Pids
    /\ global_clock = 0
    /\ scheduler \in Schedulers
    /\ waiting_processes = <<>>
    /\ next_free_time = 0
    /\ pc = "client"
    /\ process = 0
    /\ time_to_run = 0
    /\ time_ran = 0
    /\ ready_processes = <<>>
    /\ failure = "none"
    /\ NoHeap

\* process.state = ..., as run() does
SetState(p, st) ==
    /\ state' = [state EXCEPT ![p] = st]
    /\ pc' = "set_state"
    /\ process' = p
    /\ failure' = "none"
    /\ UNCHANGED <<scheduler, time_to_completion, cumulative_time_ran,
                   io_probability, initial_time_to_completion, process_table,
                   global_clock, ioVars, time_to_run, time_ran,
                   ready_processes>>
    /\ UNCHANGED heapVars

\* scheduler.add_process(p)
AddProcessCall(p) ==
    /\ Held(scheduler) < MaxHeld
    /\ pc' = "add_process"
    /\ process' = p
    /\ IF add_process_raises(scheduler, state[p])
       THEN /\ failure' = "AssertionError"
            /\ UNCHANGED scheduler
       ELSE /\ failure' = "none"
            /\ scheduler' = add_process(scheduler, p, cumulative_time_ran[p],
                                        global_clock)
    /\ UNCHANGED <<procVars, global_clock, ioVars, time_to_run, time_ran,
                   ready_processes>>
    /\ UNCHANGED heapVars

\* The assertion at the head of IOManager.add_waiting_process
add_waiting_process_raises(process_state) == process_state # "WAITING"

\* io_manager.add_waiting_process(p, now)
AddWaitingProcessCall(p) ==
    /\ Len(waiting_processes) < MaxHeld
    /\ pc' = "add_waiting_process"
    /\ process' = p
    /\ IF add_waiting_process_raises(state[p])
       THEN /\ failure' = "AssertionError"
            /\ UNCHANGED ioVars
       ELSE \E io_service_time \in ServiceTimes :
               LET completion_time == CompletionTime(global_clock, next_free_time,
                                                     io_service_time)
               IN  /\ failure' = "none"
                   /\ waiting_processes' =
                          Append(waiting_processes, <<p, completion_time>>)
                   /\ next_free_time' = completion_time
    /\ UNCHANGED <<scheduler, procVars, global_clock, time_to_run, time_ran,
                   ready_processes>>
    /\ UNCHANGED heapVars

NextApi ==
    \/ \E p \in Pids, st \in ProcessState : SetState(p, st)
    \/ \E p \in Pids : AddProcessCall(p)
    \/ \E p \in Pids : AddWaitingProcessCall(p)

SpecApi == InitApi /\ [][NextApi]_vars

\* C10: add_process of a process that is not READY raises and leaves the
\* scheduler as it was, for each of the five schedulers, and
\* add_waiting_process of a process that is not WAITING raises and leaves the
\* wait list and next_free_time as they were
ContractViolationRejected ==
    [][/\ pc' = "add_process" /\ state[process'] # "READY" =>
              failure' = "AssertionError" /\ scheduler' = scheduler
       /\ pc' = "add_waiting_process" /\ state[process'] # "WAITING" =>
              failure' = "AssertionError" /\ UNCHANGED ioVars]_vars

(* ---------------------------------------------------------------------- *)
(* Worked examples under the seeded random source                          *)
(* ---------------------------------------------------------------------- *)
\* one process of work 5 whose every dispatch of more than one tick is cut
\* by an I/O event, under round robin with quantum 3
IoRoundTripScenario ==
    /\ initial_time_to_completion = <<5>>
    /\ io_probability = <<100>>
    /\ scheduler.kind = "RoundRobin"
    /\ scheduler.quantum = 3

\* C11 as stated: the process is parked until 3, 5, 7 and 9, each drain is
\* at the completion tick, and run() returns with the clock at 10
IoRoundTripAsStated ==
    IoRoundTripScenario =>
        /\ \A i \in 1..Len(waiting_processes) :
              waiting_processes[i][2] \in {3, 5, 7, 9}
        /\ pc = "dispatch" /\ ready_processes # <<>> => global_clock \in {3, 5, 7, 9}
        /\ pc = "done" => global_clock = 10

\* C11: the k-th run of one tick starts at the drain of tick 3(k-1) and ends
\* at 3k-2, when the process is parked until 3k (3, 6, 9, 12: the service
\* time counts from the end of the run); it is drained at 3k; the fifth run
\* finishes the process and run() returns with the clock at 13
IoRoundTrip ==
    IoRoundTripScenario =>
        /\ pc = "route" =>
              /\ time_ran = 1
              /\ global_clock = 3 * cumulative_time_ran[1] - 2
        /\ waiting_processes # <<>> =>
              /\ waiting_processes = << <<1, 3 * cumulative_time_ran[1]>> >>
              /\ cumulative_time_ran[1] \in 1..4
        /\ pc = "dispatch" /\ ready_processes # <<>> =>
              global_clock = 3 * cumulative_time_ran[1]
        /\ pc = "done" =>
              /\ global_clock = 13
              /\ state[1] = "TERMINATED"
              /\ cumulative_time_ran[1] = 5

\* run() has returned from the round trips
IoRoundTripWitness ==
    /\ IoRoundTripScenario
    /\ pc = "done"
    /\ next_free_time = 12
    /\ global_clock = 13

(* ---------------------------------------------------------------------- *)
(* Multi-level feedback queue                                              *)
(* ---------------------------------------------------------------------- *)
\* the pids the MLFQ scheduler has a level for
Known == DOMAIN scheduler.process_levels

\* no process can have been boosted yet
NoBoostYet == global_clock < scheduler.boost_threshold

\* C12 as stated: a process with work left whose every dispatch so far was
\* cut by an I/O event (probability 1, more than one tick left each time) is
\* at level 0
EarlyIoStaysOnTopAsStated ==
    scheduler.kind = "MLFQ" =>
        \A p \in Known :
            io_probability[p] = 100 /\ time_to_completion[p] >= 1
                => scheduler.process_levels[p] = 0

\* C12: run time accumulates at a level over the dispatches, however they
\* end: while no boost intervenes, a process is at level 0 exactly as long
\* as the total it had run at its last admission is below levels[0]
EarlyIoStaysOnTop ==
    scheduler.kind = "MLFQ" /\ NoBoostYet =>
        \A p \in Known :
            scheduler.process_levels[p] = 0
                <=> scheduler.process_previous_cumulative_runtime[p]
                        < scheduler.levels[1]

\* a process that only ever ran one tick before an I/O event has been
\* demoted at its third re-admission
EarlyIoStaysOnTopWitness ==
    /\ scheduler.kind = "MLFQ"
    /\ NoBoostYet
    /\ \E p \in Known :
          /\ io_probability[p] = 100
          /\ time_to_completion[p] >= 1
          /\ scheduler.process_previous_cumulative_runtime[p] = scheduler.levels[1]
          /\ scheduler.process_levels[p] = 1

\* the boost of process p is due: boost_threshold ticks have passed since
\* its last boost
BoostDue(p) ==
    global_clock - scheduler.process_last_boost[p] >= scheduler.boost_threshold

RECURSIVE SumSeq(_)
SumSeq(seq) ==
    IF seq = <<>> THEN 0 ELSE Head(seq) + SumSeq(Tail(seq))

\* no process ever does I/O
NoIo == \A p \in DOMAIN io_probability : io_probability[p] = 0

LowestLevel == Len(scheduler.levels) - 1

\* C14: with no I/O and no boost, a dispatch that leaves work to do ran
\* exactly the quantum of the level of the process, and a process that had
\* run sum(levels) ticks or more at its last admission (indeed, the sum of
\* the quanta above the lowest level) is at the lowest level
DemotionBound ==
    scheduler.kind = "MLFQ" /\ NoIo /\ NoBoostYet =>
        /\ \A p \in Known :
              LET ran == scheduler.process_previous_cumulative_runtime[p]
              IN  /\ ran >= SumSeq(scheduler.levels)
                        => scheduler.process_levels[p] = LowestLevel
                  /\ ran >= SumSeq(SubSeq(scheduler.levels, 1, LowestLevel))
                        => scheduler.process_levels[p] = LowestLevel
        /\ pc = "route" /\ state[process] = "RUNNING" =>
              time_ran = scheduler.levels[scheduler.process_levels[process] + 1]

\* a process that has run sum(levels) ticks is dispatched from the lowest
\* level
DemotionBoundWitness ==
    /\ scheduler.kind = "MLFQ"
    /\ NoIo
    /\ NoBoostYet
    /\ pc = "run_for"
    /\ scheduler.process_previous_cumulative_runtime[process]
           >= SumSeq(scheduler.levels)
    /\ scheduler.process_levels[process] = LowestLevel
    /\ LowestLevel = 2

\* one process of work 30 that never does I/O, under the default MLFQ
MlfqScenario ==
    /\ initial_time_to_completion = <<30>>
    /\ io_probability = <<0>>
    /\ scheduler.kind = "MLFQ"
    /\ scheduler.levels = <<3, 6, 12>>
    /\ scheduler.boost_threshold = 50

\* C15: the dispatches run 3 ticks at level 0, 6 at level 1, 12 at level 2
\* and 9 at level 2 (ending at ticks 3, 9, 21 and 30), the process is never
\* boosted, and run() returns with the clock at 30
MlfqTrace ==
    MlfqScenario =>
        /\ pc = "route" =>
              <<time_ran, scheduler.process_levels[1], global_clock>>
                  \in {<<3, 0, 3>>, <<6, 1, 9>>, <<12, 2, 21>>, <<9, 2, 30>>}
        /\ \A p \in Known : scheduler.process_last_boost[p] = 0
        /\ pc = "done" => global_clock = 30 /\ state[1] = "TERMINATED"

\* run() has returned after the fourth dispatch
MlfqTraceWitness ==
    /\ MlfqScenario
    /\ pc = "done"
    /\ time_ran = 9
    /\ cumulative_time_ran[1] = 30

(* ---------------------------------------------------------------------- *)
(* Completely fair scheduler                                               *)
(* ---------------------------------------------------------------------- *)
\* the vruntime the scheduler recorded for process p at its admission
vruntime(p) == scheduler.id_to_vruntime[p]

\* C16: the process a pick returns was ready, and no ready process has a
\* smaller vruntime, or the same vruntime and a smaller pid
CfsPickOrder ==
    [][pc = "dispatch" /\ pc' = "run_for" /\ scheduler.kind = "CFS" =>
          /\ process' \in ReadyPids(scheduler)
          /\ \A q \in ReadyPids(scheduler) :
                \/ vruntime(process') < vruntime(q)
                \/ vruntime(process') = vruntime(q) /\ process' <= q]_vars

\* a pick has passed over a process of smaller pid and larger vruntime
CfsPickOrderWitness ==
    /\ pc = "run_for"
    /\ scheduler.kind = "CFS"
    /\ \E q \in ReadyPids(scheduler) :
          q < process /\ vruntime(process) < vruntime(q)

\* the smallest vruntime in a tree
MinVruntime(tree) ==
    CHOOSE v \in {k[1] : k \in tree} : \A k \in tree : v <= k[1]

\* the processes this step admits, in order: the ones update() released, or
\* the one whose quantum expired
Admitted ==
    IF pc = "update" THEN ready_processes'
    ELSE IF pc = "route" /\ pc' = "while" /\ state'[process] = "READY"
         THEN <<process>> ELSE <<>>

\* the tree at the admission of the i-th of them: the tree before the step
\* and the keys of the ones admitted before it
TreeAt(i) ==
    scheduler.virtual_tree \cup
        {<<scheduler'.id_to_vruntime[Admitted[j]], Admitted[j]>> :
            j \in 1..(i - 1)}

\* a process admitted to a non-empty tree gets max(cumulative_time_ran, the
\* minimum vruntime of the tree), one admitted to an empty tree gets
\* cumulative_time_ran, and the tree holds it under that key
ClampStep ==
    scheduler.kind = "CFS" =>
        \A i \in 1..Len(Admitted) :
            LET p == Admitted[i]
                v == scheduler'.id_to_vruntime[p]
            IN  /\ <<v, p>> \in scheduler'.virtual_tree
                /\ IF TreeAt(i) # {}
                   THEN /\ v = Max(cumulative_time_ran[p], MinVruntime(TreeAt(i)))
                        /\ v >= MinVruntime(TreeAt(i))
                   ELSE v = cumulative_time_ran[p]

\* a pick never returns a process admitted in this iteration of the loop
\* while a process that was ready before that admission is still ready
NotBeforeReadyStep ==
    pc = "dispatch" /\ pc' = "run_for" /\ scheduler.kind = "CFS" =>
        ~ /\ process' \in SeqToSet(ready_processes)
          /\ ReadyPids(scheduler) \ SeqToSet(ready_processes) # {}

\* C17 as stated: the clamp, and a newly admitted process is never picked
\* before a process that was already ready at its admission
CfsAdmissionAsStated == [][ClampStep /\ NotBeforeReadyStep]_vars

\* C17: the clamp: a process admitted while the tree is non-empty gets
\* vruntime max(cumulative_time_ran, minimum of the tree), so never one below
\* that minimum, and cumulative_time_ran when the tree is empty
CfsAdmissionClamp == [][ClampStep]_vars

\* a process came back from I/O behind a ready one and was given more
\* vruntime than it has run
CfsAdmissionClampWitness ==
    /\ scheduler.kind = "CFS"
    /\ pc = "dispatch"
    /\ \E p \in SeqToSet(ready_processes) :
          /\ p \in ReadyPids(scheduler)
          /\ vruntime(p) > cumulative_time_ran[p]
          /\ ReadyPids(scheduler) # {p}

(* ---------------------------------------------------------------------- *)
(* Lottery: a client that admits ready processes with ticket counts of its *)
(* choice and lets the scheduler draw                                      *)
(* ---------------------------------------------------------------------- *)
TicketHolders == 1..NumTicketHolders

InitLottery ==
    /\ time_to_completion = [p \in TicketHolders |-> MaxWork]
    /\ initial_time_to_completion = time_to_completion
    /\ io_probability = [p \in TicketHolders |-> 30]
    /\ cumulative_time_ran = [p \in TicketHolders |-> 0]
    /\ state = [p \in TicketHolders |-> "READY"]
    /\ process_table = TicketHolders
    /\ global_clock = 0
    /\ scheduler = LotteryScheduler(5)
    /\ waiting_processes = <<>>
    /\ next_free_time = 0
    /\ pc = "client"
    /\ process = 0
    /\ time_to_run = 0
    /\ time_ran = 0
    /\ ready_processes = <<>>
    /\ failure = "none"
    /\ NoHeap

\* scheduler.add_process(p, tickets) for a process the scheduler does not hold
AddTicketsCall(p, tickets) ==
    /\ p \notin OrdKeys(scheduler.processes)
    /\ ~add_process_raises(scheduler, state[p])
    /\ scheduler' = add_process_tickets(scheduler, p, tickets)
    /\ pc' = "add_process"
    /\ process' = p
    /\ failure' = "none"
    /\ UNCHANGED <<procVars, global_clock, ioVars, time_to_run, time_ran,
                   ready_processes>>
    /\ UNCHANGED heapVars

\* if scheduler.has_processes(): scheduler.get_next_process()
DrawCall ==
    /\ has_processes(scheduler)
    /\ \E winning_ticket \in WinningTickets(scheduler, state, process_table) :
          LET r == get_next_process(scheduler, state, process_table,
                                    global_clock, winning_ticket)
          IN  /\ scheduler' = r.sched
              /\ process' = r.process
              /\ failure' = r.raised
    /\ pc' = "get_next_process"
    /\ UNCHANGED <<procVars, global_clock, ioVars, time_to_run, time_ran,
                   ready_processes>>
    /\ UNCHANGED heapVars

NextLottery ==
    \/ \E p \in TicketHolders, tickets \in 1..MaxTickets : AddTicketsCall(p, tickets)
    \/ DrawCall

SpecLottery == InitLottery /\ [][NextLottery]_vars

\* the running ticket sum over the first i entries, in insertion order
RECURSIVE RunningSum(_, _)
RunningSum(tickets, i) ==
    IF i = 0 THEN 0 ELSE RunningSum(tickets, i - 1) + tickets[i][2]

\* C18: while processes are ready, total_tickets is the sum T of their
\* ticket counts; every draw w in 1..T selects a process of the map, never
\* the fallback: the first in insertion order whose running sum reaches w;
\* and exactly t_i draws select the process with t_i tickets; no draw made
\* has failed
TicketProportional ==
    /\ failure = "none"
    /\ pc = "get_next_process" => process \in TicketHolders
    /\ has_processes(scheduler) =>
        LET c == cleanup(scheduler, state, process_table)
            T == c.total_tickets
            n == Len(c.tickets)
            Winners(i) == {w \in 1..T :
                             LotteryWinner(c.tickets, w, 0) = c.tickets[i][1]}
        IN  /\ n >= 1
            /\ T = RunningSum(c.tickets, n)
            /\ \A w \in 1..T :
                  \E i \in 1..n :
                      /\ LotteryWinner(c.tickets, w, 0) = c.tickets[i][1]
                      /\ RunningSum(c.tickets, i) >= w
                      /\ RunningSum(c.tickets, i - 1) < w
            /\ \A i \in 1..n : Cardinality(Winners(i)) = c.tickets[i][2]

\* a draw has been made and left two processes with different ticket
\* counts, the one of larger pid first in insertion order
TicketProportionalWitness ==
    /\ pc = "get_next_process"
    /\ Len(scheduler.tickets) = 2
    /\ scheduler.tickets[1][1] > scheduler.tickets[2][1]
    /\ scheduler.tickets[1][2] < scheduler.tickets[2][2]

(* ---------------------------------------------------------------------- *)
(* Round robin                                                             *)
(* ---------------------------------------------------------------------- *)
\* two processes of work 5 and 4 that never do I/O, under quantum 3
RrScenario ==
    /\ initial_time_to_completion = <<5, 4>>
    /\ NoIo
    /\ scheduler.kind = "RoundRobin"
    /\ scheduler.quantum = 3

\* a dispatch without I/O runs min(quantum, remaining work), and a process
\* with work left is re-admitted at the tail of the queue
RrStep ==
    scheduler.kind = "RoundRobin" /\ NoIo =>
        /\ pc = "run_for" /\ pc' = "route" =>
              time_ran' = Min(scheduler.quantum, time_to_completion[process])
        /\ pc = "route" /\ state[process] = "RUNNING" =>
              scheduler'.queue = Append(scheduler.queue, process)

\* C19: under round robin without I/O every dispatch runs min(quantum,
\* remaining work) and an unfinished process goes to the tail; for quantum 3
\* and work [5, 4] the runs are P1:3, P2:3, P1:2, P2:1 (ending at ticks 3,
\* 6, 8, 9) and run() returns with the clock at 9
RrTrace ==
    /\ [][RrStep]_vars
    /\ [](RrScenario =>
            /\ pc = "route" =>
                  <<process, time_ran, global_clock>>
                      \in {<<1, 3, 3>>, <<2, 3, 6>>, <<1, 2, 8>>, <<2, 1, 9>>}
            /\ pc = "done" => global_clock = 9)

\* run() has returned after the run P2:1
RrTraceWitness ==
    /\ RrScenario
    /\ pc = "done"
    /\ process = 2
    /\ time_ran = 1
    /\ cumulative_time_ran = <<5, 4>>

\* k processes of the same work that never do I/O, under round robin
RrEqualWork ==
    /\ scheduler.kind = "RoundRobin"
    /\ NoIo
    /\ \A p, q \in DOMAIN initial_time_to_completion :
          initial_time_to_completion[p] = initial_time_to_completion[q]

\* the tick at which the last dispatch of p ended, when p has work left: the
\* k processes take turns in the order of their pids and p has run a whole
\* quantum in each of its cumulative_time_ran[p] / quantum turns
LastEnd(p) ==
    LET k == Len(initial_time_to_completion)
        turns == cumulative_time_ran[p] \div scheduler.quantum
    IN  (turns - 1) * k * scheduler.quantum + p * scheduler.quantum

\* C20: with k processes of equal work that never block, under quantum q, a
\* dispatch that leaves work to its process ends at the tick LastEnd gives,
\* and the next dispatch of that process starts at most (k-1)*q ticks later
ResponseBound ==
    RrEqualWork =>
        /\ pc = "route" /\ state[process] = "RUNNING" =>
              global_clock = LastEnd(process)
        /\ pc = "run_for" /\ cumulative_time_ran[process] > 0 =>
              /\ global_clock >= LastEnd(process)
              /\ global_clock - LastEnd(process)
                    <= (Len(initial_time_to_completion) - 1) * scheduler.quantum

\* the first of three processes starts its second dispatch exactly
\* (k-1)*q ticks after the end of its first
ResponseBoundWitness ==
    /\ RrEqualWork
    /\ Len(initial_time_to_completion) = 3
    /\ pc = "run_for"
    /\ process = 1
    /\ cumulative_time_ran[1] = scheduler.quantum
    /\ global_clock - LastEnd(1) = 2 * scheduler.quantum

(* ---------------------------------------------------------------------- *)
(* Simple scheduler                                                        *)
(* ---------------------------------------------------------------------- *)
\* the work of the processes admitted up to and including p
WorkUpTo(p) == SumSeq(SubSeq(initial_time_to_completion, 1, p))

\* C21: under the simple scheduler without I/O, when a dispatch has ended
\* its process has run its whole work in that one dispatch and is
\* terminated, the processes admitted before it are terminated and the ones
\* admitted after it have not run; the clock is the work of the processes up
\* to it, and the sum of all work when run() returns.  For work [5, 3, 7]
\* the runs are P1:5, P2:3, P3:7 and the final clock is 15
SimpleTrace ==
    scheduler.kind = "Simple" /\ NoIo =>
        /\ pc = "route" =>
              /\ time_ran = initial_time_to_completion[process]
              /\ global_clock = WorkUpTo(process)
              /\ \A p \in DOMAIN state :
                    /\ p <= process => state[p] = "TERMINATED"
                    /\ p > process =>
                          state[p] = "READY" /\ cumulative_time_ran[p] = 0
        /\ pc = "done" =>
              global_clock = SumSeq(initial_time_to_completion)
        /\ initial_time_to_completion = <<5, 3, 7>> =>
              /\ pc = "route" =>
                    <<process, time_ran, global_clock>>
                        \in {<<1, 5, 5>>, <<2, 3, 8>>, <<3, 7, 15>>}
              /\ pc = "done" => global_clock = 15

\* run() has returned after P1:5, P2:3, P3:7
SimpleTraceWitness ==
    /\ scheduler.kind = "Simple"
    /\ NoIo
    /\ initial_time_to_completion = <<5, 3, 7>>
    /\ pc = "done"
    /\ process = 3
    /\ cumulative_time_ran = <<5, 3, 7>>

(* ---------------------------------------------------------------------- *)
(* Heap allocators.  One record holds the fields of whichever class was    *)
(* built: free_list for the fit allocators, free_lists for the buddy one.  *)
(* memory is the bytearray, byte at address a being memory[a + 1].         *)
(* ---------------------------------------------------------------------- *)
HEADER_SIZE == 8

\* struct.pack("Q", value): eight bytes, least significant first
RECURSIVE shift_right(_, _)
shift_right(value, bytes) ==
    IF bytes = 0 THEN value ELSE shift_right(value \div 256, bytes - 1)

pack(value) == [i \in 1..HEADER_SIZE |-> shift_right(value, i - 1) % 256]

\* struct.unpack("Q", bytes)
RECURSIVE unpack(_)
unpack(bytes) ==
    IF bytes = <<>> THEN 0 ELSE Head(bytes) + 256 * unpack(Tail(bytes))

\* self.memory[start:start + HEADER_SIZE]
read_header(memory, start) ==
    unpack(SubSeq(memory, start + 1, start + HEADER_SIZE))

\* self.memory[start:start + HEADER_SIZE] = struct.pack("Q", value)
write_header(memory, start, value) ==
    [i \in 1..Len(memory) |->
        IF i \in (start + 1)..(start + HEADER_SIZE)
        THEN pack(value)[i - start] ELSE memory[i]]

BlankAllocator ==
    [kind |-> "none", total_memory |-> 0, memory |-> <<>>,
     \* XFitAllocator
     free_list |-> <<>>,
     \* BuddyAllocator
     free_lists |-> EmptyDict]

XFitAllocator(kind, total_memory) ==
    [BlankAllocator EXCEPT !.kind = kind, !.total_memory = total_memory,
                           !.memory = [i \in 1..total_memory |-> 0],
                           !.free_list = << <<0, total_memory>> >>]

BuddyAllocator(total_memory) ==
    [BlankAllocator EXCEPT !.kind = "Buddy", !.total_memory = total_memory,
                           !.memory = [i \in 1..total_memory |-> 0],
                           !.free_lists = DictPut(EmptyDict, total_memory, <<0>>)]

FitKinds == {"FirstFit", "BestFit", "WorstFit"}

\* ---- the index (from 1; 0: none) of the region malloc takes ----
\* A plausible slip: a region has to be larger than the request
fits_strict(free_size, total_size) == free_size > total_size

\* if free_size >= total_size
fits(free_size, total_size) == free_size >= total_size

Fitting(free_list, total_size) ==
    {i \in 1..Len(free_list) : fits(free_list[i][2], total_size)}

\* FirstFitAllocator.malloc: the first region that fits
first_fit_index(free_list, total_size) ==
    IF Fitting(free_list, total_size) = {} THEN 0
    ELSE CHOOSE i \in Fitting(free_list, total_size) :
            \A j \in Fitting(free_list, total_size) : i <= j

\* A plausible slip: "<=" for "<", so that the last of the smallest regions
\* that fit is taken
best_fit_index_last(free_list, total_size) ==
    IF Fitting(free_list, total_size) = {} THEN 0
    ELSE CHOOSE i \in Fitting(free_list, total_size) :
            \A j \in Fitting(free_list, total_size) :
                \/ free_list[i][2] < free_list[j][2]
                \/ free_list[i][2] = free_list[j][2] /\ i >= j

\* BestFitAllocator.malloc: the first of the smallest regions that fit
best_fit_index(free_list, total_size) ==
    IF Fitting(free_list, total_size) = {} THEN 0
    ELSE CHOOSE i \in Fitting(free_list, total_size) :
            \A j \in Fitting(free_list, total_size) :
                \/ free_list[i][2] < free_list[j][2]
                \/ free_list[i][2] = free_list[j][2] /\ i <= j

\* WorstFitAllocator.malloc: the first of the largest regions that fit
worst_fit_index(free_list, total_size) ==
    IF Fitting(free_list, total_size) = {} THEN 0
    ELSE CHOOSE i \in Fitting(free_list, total_size) :
            \A j \in Fitting(free_list, total_size) :
                \/ free_list[i][2] > free_list[j][2]
                \/ free_list[i][2] = free_list[j][2] /\ i <= j

\* ---- malloc: the allocator after the call, the pointer it returned ----
\* ---- and the exception it raised                                     ----
Returned(a, pointer) == [allocator |-> a, pointer |-> pointer, raised |-> "none"]
MemoryError(a) == [allocator |-> a, pointer |-> -1, raised |-> "MemoryError"]

\* del self.free_list[index]
del(list, index) ==
    SubSeq(list, 1, index - 1) \o SubSeq(list, index + 1, Len(list))

\* A plausible slip: the rest of the region moves but is not shortened
remainder_whole(alloc_end, free_size, total_size) == <<alloc_end, free_size>>

\* (alloc_end, free_size - total_size)
remainder(alloc_end, free_size, total_size) ==
    <<alloc_end, free_size - total_size>>

fit_malloc(a, size) ==
    LET total_size == size + HEADER_SIZE
        index == CASE a.kind = "FirstFit" -> first_fit_index(a.free_list, total_size)
                   [] a.kind = "BestFit" -> best_fit_index(a.free_list, total_size)
                   [] a.kind = "WorstFit" -> worst_fit_index(a.free_list, total_size)
    IN  IF index = 0 THEN MemoryError(a)
        ELSE LET alloc_start == a.free_list[index][1]
                 free_size == a.free_list[index][2]
                 alloc_end == alloc_start + total_size
             IN  Returned(
                    [a EXCEPT
                       !.memory = write_header(@, alloc_start, total_size),
                       !.free_list =
                           IF free_size = total_size THEN del(@, index)
                           ELSE [@ EXCEPT ![index] =
                                    remainder(alloc_end, free_size, total_size)]],
                    alloc_start + HEADER_SIZE)

\* ---- XFitAllocator.free ----
\* self.free_list.sort(key=lambda x: x[0]) keeps equal keys in list order
\* A plausible slip: the freed block stays where append put it
sort_insert_last(sorted, item) == Append(sorted, item)

sort_insert(sorted, item) ==
    LET k == Cardinality({i \in 1..Len(sorted) : sorted[i][1] <= item[1]})
    IN  SubSeq(sorted, 1, k) \o <<item>> \o SubSeq(sorted, k + 1, Len(sorted))

RECURSIVE sort_by_start(_)
sort_by_start(list) ==
    IF list = <<>> THEN <<>>
    ELSE sort_insert(sort_by_start(SubSeq(list, 1, Len(list) - 1)),
                     list[Len(list)])

\* A plausible slip: merging only regions that overlap
contiguous_overlapping(current_start, current_size, next_start) ==
    current_start + current_size > next_start

\* if current_start + current_size == next_start
contiguous(current_start, current_size, next_start) ==
    current_start + current_size = next_start

\* the loop over self.free_list[1:], with the append that follows it
RECURSIVE coalesce(_, _, _)
coalesce(coalesced, current, rest) ==
    IF rest = <<>> THEN Append(coalesced, current)
    ELSE IF contiguous(current[1], current[2], Head(rest)[1])
         THEN coalesce(coalesced, <<current[1], current[2] + Head(rest)[2]>>,
                       Tail(rest))
         ELSE coalesce(Append(coalesced, current), Head(rest), Tail(rest))

fit_free(a, pointer) ==
    LET block_start == pointer - HEADER_SIZE
        total_size == read_header(a.memory, block_start)
        freed_block == <<block_start, total_size>>
        sorted == sort_by_start(Append(a.free_list, freed_block))
    IN  [a EXCEPT !.free_list = coalesce(<<>>, Head(sorted), Tail(sorted))]

\* ---- BuddyAllocator ----
\* int.bit_length
RECURSIVE bit_length(_)
bit_length(x) == IF x = 0 THEN 0 ELSE 1 + bit_length(x \div 2)

\* A plausible slip: the bit length of x itself, which doubles a power of two
next_power_of_two_above(x) == 2 ^ bit_length(x)

\* 1 << (x - 1).bit_length()
next_power_of_two(x) == 2 ^ bit_length(x - 1)

\* a ^ b on non-negative integers
RECURSIVE xor(_, _)
xor(a, b) ==
    IF a = 0 /\ b = 0 THEN 0
    ELSE (((a % 2) + (b % 2)) % 2) + 2 * xor(a \div 2, b \div 2)

\* A plausible slip: the buddy is always the block above
buddy_above(addr, size) == addr + size

\* _buddy_of, and the same expression in free
buddy_of(addr, size) == xor(addr, size)

\* self.free_lists.get(size, [])
get_list(free_lists, size) ==
    IF size \in DOMAIN free_lists THEN free_lists[size] ELSE <<>>

\* the search loop of malloc: the first non-empty class from candidate_size
\* upwards, 0 when the loop ends without one
RECURSIVE find_candidate(_, _, _)
find_candidate(free_lists, candidate_size, total_memory) ==
    IF candidate_size > total_memory THEN 0
    ELSE IF get_list(free_lists, candidate_size) # <<>> THEN candidate_size
    ELSE find_candidate(free_lists, candidate_size * 2, total_memory)

\* the split loop of malloc: halve, and give the upper half to its class
RECURSIVE split(_, _, _, _)
split(free_lists, found_addr, candidate_size, block_size) ==
    IF candidate_size > block_size
    THEN LET half == candidate_size \div 2
             buddy_addr == found_addr + half
         IN  split(DictPut(free_lists, half,
                           Append(get_list(free_lists, half), buddy_addr)),
                   found_addr, half, block_size)
    ELSE free_lists

buddy_malloc(a, size) ==
    LET request == size + HEADER_SIZE
        block_size == next_power_of_two(request)
        candidate_size == find_candidate(a.free_lists, block_size, a.total_memory)
    IN  IF candidate_size = 0 THEN MemoryError(a)
        ELSE LET found_addr == Head(a.free_lists[candidate_size])
                 popped == [a.free_lists EXCEPT ![candidate_size] = Tail(@)]
             IN  Returned(
                    [a EXCEPT
                       !.memory = write_header(@, found_addr, block_size),
                       !.free_lists = split(popped, found_addr,
                                            candidate_size, block_size)],
                    found_addr + HEADER_SIZE)

\* list.remove(value): the first occurrence goes
remove(list, value) ==
    del(list, CHOOSE i \in 1..Len(list) :
                  list[i] = value /\ \A j \in 1..(i - 1) : list[j] # value)

\* the merge loop of free, with the append that follows it
RECURSIVE merge(_, _, _)
merge(free_lists, addr, size) ==
    LET buddy == buddy_of(addr, size)
    IN  IF buddy \in SeqToSet(get_list(free_lists, size))
        THEN merge([free_lists EXCEPT ![size] = remove(@, buddy)],
                   Min(addr, buddy), size * 2)
        ELSE DictPut(free_lists, size, Append(get_list(free_lists, size), addr))

buddy_free(a, pointer) ==
    LET addr == pointer - HEADER_SIZE
        size == read_header(a.memory, addr)
    IN  [a EXCEPT !.free_lists = merge(@, addr, size)]

malloc(a, size) ==
    IF a.kind = "Buddy" THEN buddy_malloc(a, size) ELSE fit_malloc(a, size)

free(a, pointer) ==
    IF a.kind = "Buddy" THEN buddy_free(a, pointer) ELSE fit_free(a, pointer)

\* ---- a client of one allocator ----
\* the arenas the client builds and the sizes it asks for
Arenas == {32, 64}
RequestSizes == {0, 1, 8, 24, 56}

Allocators ==
    {XFitAllocator(kind, total) : kind \in FitKinds, total \in Arenas}
        \cup {BuddyAllocator(total) : total \in Arenas}

cpuVars == <<scheduler, procVars, global_clock, ioVars, localVars,
             ready_processes>>

InitHeap ==
    /\ allocator \in Allocators
    /\ pointers = {}
    /\ malloc_calls = 0
    /\ pc = "client"
    /\ failure = "none"
    /\ scheduler = BlankScheduler
    /\ state = <<>>
    /\ time_to_completion = <<>>
    /\ cumulative_time_ran = <<>>
    /\ io_probability = <<>>
    /\ initial_time_to_completion = <<>>
    /\ process_table = {}
    /\ global_clock = 0
    /\ waiting_processes = <<>>
    /\ next_free_time = 0
    /\ process = 0
    /\ time_to_run = 0
    /\ time_ran = 0
    /\ ready_processes = <<>>

\* pointer = allocator.malloc(size); a MemoryError reaches the client
MallocCall(size) ==
    /\ allocator.kind # "none"
    /\ malloc_calls < MaxMallocs
    /\ malloc_calls' = malloc_calls + 1
    /\ LET call == malloc(allocator, size)
       IN  /\ allocator' = call.allocator
           /\ failure' = call.raised
           /\ pointers' = IF call.raised = "none"
                          THEN pointers \cup {call.pointer} ELSE pointers
    /\ pc' = "malloc"
    /\ UNCHANGED cpuVars

\* allocator.free(pointer) for a pointer malloc returned and the client
\* has not freed
FreeCall(pointer) ==
    /\ allocator.kind # "none"
    /\ pointer \in pointers
    /\ allocator' = free(allocator, pointer)
    /\ pointers' = pointers \ {pointer}
    /\ UNCHANGED malloc_calls
    /\ failure' = "none"
    /\ pc' = "free"
    /\ UNCHANGED cpuVars

Malloc == \E size \in RequestSizes : MallocCall(size)
Free == \E pointer \in pointers : FreeCall(pointer)

NextHeap == Malloc \/ Free

SpecHeap == InitHeap /\ [][NextHeap]_vars

(* ---------------------------------------------------------------------- *)
(* Claims about the heap allocators                                        *)
(* ---------------------------------------------------------------------- *)
\* the whole arena as one free region
WholeArena == << <<0, allocator.total_memory>> >>

\* C22: for the first-fit, best-fit and worst-fit allocators, whenever every
\* pointer malloc returned has been freed (in whatever order and however
\* the calls were interleaved), the free list is the single region
\* (0, total_memory); so in an arena of 64 three malloc(8) followed by the
\* three frees end with [(0, 64)].
FitRoundTrip ==
    allocator.kind \in FitKinds /\ pointers = {} =>
        allocator.free_list = WholeArena

\* the three blocks of malloc(8) were live together at 0, 16 and 32 of a
\* first-fit arena of 64, and the last of them has just been freed
FitRoundTripWitness ==
    /\ allocator.kind = "FirstFit" /\ allocator.total_memory = 64
    /\ malloc_calls = 3
    /\ \A start \in {0, 16, 32} : read_header(allocator.memory, start) = 16
    /\ pc = "free" /\ pointers = {}
    /\ allocator.free_list = << <<0, 64>> >>

\* C23: for each of the three fit policies, whenever malloc(n) succeeds,
\* freeing the pointer it returned straight away gives back the free list
\* there was before the malloc: the same regions in the same order.
FreeUndoesMalloc ==
    [][\A n \in RequestSizes :
          MallocCall(n) /\ allocator.kind \in FitKinds /\ failure' = "none" =>
              \A pointer \in pointers' \ pointers :
                  free(allocator', pointer).free_list = allocator.free_list]_vars

\* a malloc has just succeeded in an arena whose free list had been broken
\* up around live blocks, and took a region that is not the first
FreeUndoesMallocWitness ==
    /\ allocator.kind \in FitKinds
    /\ pc = "malloc" /\ failure = "none"
    /\ Cardinality(pointers) >= 2
    /\ Len(allocator.free_list) >= 2
    /\ \E pointer \in pointers :
          /\ pointer - HEADER_SIZE > allocator.free_list[1][1]
          /\ Len(free(allocator, pointer).free_list) = Len(allocator.free_list)

\* the free regions and the live blocks as <<what, class, which, start, size>>:
\* one entry for every place of a free list and for every live pointer
FreeRegions ==
    IF allocator.kind = "Buddy"
    THEN {<<"free", class, i, allocator.free_lists[class][i], class>> :
             <<class, i>> \in
                 {ci \in (DOMAIN allocator.free_lists) \X (1..allocator.total_memory) :
                      ci[2] <= Len(allocator.free_lists[ci[1]])}}
    ELSE {<<"free", 0, i, allocator.free_list[i][1], allocator.free_list[i][2]>> :
             i \in 1..Len(allocator.free_list)}

LiveBlocks ==
    {<<"live", 0, pointer, pointer - HEADER_SIZE,
       read_header(allocator.memory, pointer - HEADER_SIZE)>> :
         pointer \in pointers}

Regions == FreeRegions \cup LiveBlocks

RECURSIVE TotalSize(_)
TotalSize(regions) ==
    IF regions = {} THEN 0
    ELSE LET region == CHOOSE r \in regions : TRUE
         IN  region[5] + TotalSize(regions \ {region})

Disjoint(r, s) == r[4] + r[5] <= s[4] \/ s[4] + s[5] <= r[4]

\* C24: for the fit allocators and the buddy allocator, the free regions and
\* the live blocks never overlap one another, lie inside the arena, and
\* their sizes add up to total_memory: together they are exactly
\* [0, total_memory).
ArenaPartition ==
    allocator.kind # "none" =>
        /\ \A r \in Regions : r[4] >= 0 /\ r[5] > 0
                              /\ r[4] + r[5] <= allocator.total_memory
        /\ \A r, s \in Regions : r # s => Disjoint(r, s)
        /\ TotalSize(Regions) = allocator.total_memory

\* a fit arena after mallocs and a free: live blocks on both sides of a
\* free region, and free space behind them
ArenaPartitionWitness ==
    /\ allocator.kind \in FitKinds
    /\ pc = "free"
    /\ Cardinality(pointers) >= 2
    /\ Len(allocator.free_list) >= 2
    /\ \E pointer \in pointers : pointer < allocator.free_list[1][1]
    /\ \E pointer \in pointers : pointer > allocator.free_list[1][1]

\* C25: in a buddy arena whose size is a power of two, whenever every
\* pointer malloc returned has been freed the only free block is address 0
\* in the class total_memory and every other class is empty, so
\* malloc(total_memory - 8) succeeds; in an arena of 64, malloc(1) takes a
\* block of 16 at 0 (pointer 8) and leaves 16 and 32 free, and freeing it
\* gives back {64: [0]}.
BuddyRoundTrip ==
    allocator.kind = "Buddy" =>
        /\ pointers = {} =>
              /\ allocator.total_memory \in DOMAIN allocator.free_lists
              /\ \A class \in DOMAIN allocator.free_lists :
                    allocator.free_lists[class] =
                        IF class = allocator.total_memory THEN <<0>> ELSE <<>>
              /\ malloc(allocator, allocator.total_memory - HEADER_SIZE).raised
                     = "none"
        /\ /\ allocator.total_memory = 64 /\ malloc_calls = 1
           /\ pc = "malloc" /\ read_header(allocator.memory, 0) = 16
           => /\ pointers = {8}
              /\ allocator.free_lists = (16 :> <<16>>) @@ (32 :> <<32>>)
                                            @@ (64 :> <<>>)

\* the block of malloc(1) in an arena of 64 has been freed and merged twice
BuddyRoundTripWitness ==
    /\ allocator.kind = "Buddy" /\ allocator.total_memory = 64
    /\ malloc_calls = 1 /\ read_header(allocator.memory, 0) = 16
    /\ pc = "free" /\ pointers = {}
    /\ allocator.free_lists[64] = <<0>>
    /\ allocator.free_lists[16] = <<>> /\ allocator.free_lists[32] = <<>>

\* the block size the buddy allocator rounds a request to: the least power
\* of two that holds the request and its header
RoundedBlockSize(n) ==
    CHOOSE b \in {2 ^ k : k \in 0..16} :
        /\ b >= n + HEADER_SIZE
        /\ \A c \in {2 ^ k : k \in 0..16} : c >= n + HEADER_SIZE => b <= c

\* some free region, or free buddy block, is large enough for malloc(n)
LargeEnough(n) ==
    \E r \in FreeRegions :
        r[5] >= IF allocator.kind = "Buddy" THEN RoundedBlockSize(n)
                ELSE n + HEADER_SIZE

\* C26: malloc(n) of a fit allocator raises MemoryError exactly when no free
\* region has size >= n + 8, and malloc(n) of the buddy allocator exactly
\* when no free block of size >= the rounded block size exists; a malloc
\* that fails leaves the free list(s), the arena bytes and the live
\* pointers as they were.
OutOfMemory ==
    [][\A n \in RequestSizes :
          MallocCall(n) =>
              /\ failure' = "MemoryError" <=> ~LargeEnough(n)
              /\ failure' = "MemoryError" =>
                    allocator' = allocator /\ pointers' = pointers]_vars

\* a malloc has just failed although free memory is left around live blocks
OutOfMemoryWitness ==
    /\ pc = "malloc" /\ failure = "MemoryError"
    /\ pointers # {}
    /\ FreeRegions # {}

(* ---------------------------------------------------------------------- *)
(* Claims about processes, the I/O manager and MLFQ bookkeeping            *)
(* ---------------------------------------------------------------------- *)
\* a step in which run_for(time_to_run) of a RUNNING process returns
RunForReturns ==
    /\ pc = "run_for" /\ pc' = "route"
    /\ state[process] = "RUNNING"
    /\ time_to_completion[process] >= 1 /\ time_to_run >= 1

\* C27: run_for(q) of a RUNNING process with time_to_completion >= 1 and
\* q >= 1 returns r with 1 <= r <= min(q, time_to_completion); if it ends in
\* WAITING then r <= min(q, time_to_completion) - 1 and work is left;
\* otherwise r = min(q, time_to_completion) and the process is TERMINATED
\* exactly when its time_to_completion became 0.
RunForProgress ==
    [][RunForReturns =>
          LET max_run == Min(time_to_run, time_to_completion[process])
          IN  /\ 1 <= time_ran' /\ time_ran' <= max_run
              /\ time_to_completion'[process] =
                     time_to_completion[process] - time_ran'
              /\ IF state'[process] = "WAITING"
                 THEN /\ time_ran' <= max_run - 1
                      /\ time_to_completion'[process] >= 1
                 ELSE /\ time_ran' = max_run
                      /\ state'[process] = "TERMINATED"
                             <=> time_to_completion'[process] = 0]_vars

\* run_for(3) has returned 2 with the process WAITING and one unit left
RunForProgressWitness ==
    /\ pc = "route" /\ time_to_run = 3 /\ time_ran = 2
    /\ state[process] = "WAITING"
    /\ time_to_completion[process] = 1

\* C28: in every state of CPU.run(), for every process: its state is
\* TERMINATED if and only if its time_to_completion is 0, if and only if
\* its pid is absent from the process table; time_to_completion is never
\* negative.
TerminatedIffDone ==
    \A p \in DOMAIN state :
        /\ state[p] = "TERMINATED" <=> time_to_completion[p] = 0
        /\ time_to_completion[p] = 0 <=> p \notin process_table
        /\ time_to_completion[p] >= 0

\* one process has run to its end and left the table while another, which
\* has run too, is still in it
TerminatedIffDoneWitness ==
    \E p, q \in DOMAIN state :
        /\ state[p] = "TERMINATED" /\ time_to_completion[p] = 0
        /\ p \notin process_table
        /\ cumulative_time_ran[p] = initial_time_to_completion[p]
        /\ state[q] # "TERMINATED" /\ q \in process_table
        /\ cumulative_time_ran[q] > 0 /\ time_to_completion[q] > 0

\* the wait list as add_waiting_process leaves it: completions strictly
\* increasing in list order, the last of them being next_free_time
WaitListOrdered ==
    /\ \A i, j \in 1..Len(waiting_processes) :
          i < j => waiting_processes[i][2] < waiting_processes[j][2]
    /\ waiting_processes # <<>> =>
          next_free_time = waiting_processes[Len(waiting_processes)][2]

\* one call of add_waiting_process(process, global_clock): its service
\* starts at max(now, next_free_time), after every parked request has
\* completed, and lasts 2 to 5 ticks
ParkSerialised ==
    Len(waiting_processes') = Len(waiting_processes) + 1 =>
        LET start_time == Max(global_clock, next_free_time)
            parked == waiting_processes'[Len(waiting_processes')]
        IN  /\ parked[1] = process
            /\ parked[2] - start_time \in MinServiceTime..MaxServiceTime
            /\ next_free_time' = parked[2]
            /\ \A i \in 1..Len(waiting_processes) :
                  waiting_processes[i][2] <= start_time

\* C29: I/O is serialised through the watermark: parking p at tick now
\* gives completion = max(now, next_free_time) + s with s in 2..5 and sets
\* next_free_time to it; so the completions in the wait list are strictly
\* increasing in insertion order, next_free_time is the completion of the
\* most recently parked entry, and the service intervals [start, completion)
\* of two parked requests never overlap.
IoSerialised == []WaitListOrdered /\ [][ParkSerialised]_vars

\* a second request has just been parked behind one that is still being
\* served: it starts at the watermark, not at the clock
IoSerialisedWitness ==
    /\ pc = "while"
    /\ Len(waiting_processes) = 2
    /\ global_clock < waiting_processes[1][2]
    /\ next_free_time = waiting_processes[2][2]
    /\ waiting_processes[2][1] = process

\* the books of the MLFQ scheduler: levels and counters in range, and every
\* queued pid in the queue of its recorded level
MlfqBooksInRange ==
    scheduler.kind = "MLFQ" =>
        /\ \A pid \in Known :
              /\ 0 <= scheduler.process_levels[pid]
              /\ scheduler.process_levels[pid] < Len(scheduler.levels)
              /\ 0 <= scheduler.process_time_in_level[pid]
              /\ scheduler.process_time_in_level[pid]
                     < scheduler.levels[scheduler.process_levels[pid] + 1]
        /\ \A k \in 1..Len(scheduler.queues) :
              \A i \in 1..Len(scheduler.queues[k]) :
                  /\ scheduler.queues[k][i] \in Known
                  /\ scheduler.process_levels[scheduler.queues[k][i]] = k - 1

\* one dispatch: the process comes from the first non-empty queue left by
\* cleanup and boost, and its time slice is the quantum of that queue
MlfqDispatchFromLevel ==
    scheduler.kind = "MLFQ" /\ pc = "dispatch" /\ pc' = "run_for" =>
        LET boosted == auto_boost_processes(
                           cleanup(scheduler, state, process_table), global_clock)
            k == CHOOSE i \in 1..Len(boosted.queues) :
                     /\ boosted.queues[i] # <<>>
                     /\ \A j \in 1..(i - 1) : boosted.queues[j] = <<>>
        IN  /\ process' = Head(boosted.queues[k])
            /\ scheduler'.process_levels[process'] = k - 1
            /\ time_to_run' = scheduler.levels[k]

\* C30: for every pid the MLFQ scheduler knows, 0 <= level < len(levels)
\* and 0 <= time_in_level < levels[level] (reaching the quantum demotes by
\* one level, clamped at the lowest, and resets the counter), and every
\* queued process sits in the queue of its recorded level, so the quantum
\* it gets on dispatch is the quantum of the queue it was taken from.
MlfqBookkeeping == []MlfqBooksInRange /\ [][MlfqDispatchFromLevel]_vars

\* a process that was demoted and then used part of the lower quantum has
\* been admitted again and waits in the queue of its level
MlfqBookkeepingWitness ==
    /\ scheduler.kind = "MLFQ"
    /\ pc = "dispatch"
    /\ \E pid \in Known :
          /\ scheduler.process_levels[pid] >= 1
          /\ scheduler.process_time_in_level[pid] >= 1
          /\ pid \in SeqToSet(scheduler.queues[scheduler.process_levels[pid] + 1])

(* ---------------------------------------------------------------------- *)
(* A client of the MLFQ scheduler: it admits processes, picks one, runs it *)
(* for part of its time slice and may let the clock pass before it admits  *)
(* the process again, as CPU.run does around an I/O wait.                  *)
(* ---------------------------------------------------------------------- *)
QueuedPids == 1..NumQueued

InitMlfq ==
    /\ time_to_completion = [p \in QueuedPids |-> MaxClock + 1]
    /\ initial_time_to_completion = time_to_completion
    /\ io_probability = [p \in QueuedPids |-> 30]
    /\ cumulative_time_ran = [p \in QueuedPids |-> 0]
    /\ state = [p \in QueuedPids |-> "READY"]
    /\ process_table = QueuedPids
    /\ global_clock = 0
    /\ scheduler = MultiLevelFeedbackQueueScheduler(<<1, 2>>, 3)
    /\ waiting_processes = <<>>
    /\ next_free_time = 0
    /\ pc = "client"
    /\ process = 0
    /\ time_to_run = 0
    /\ time_ran = 0
    /\ ready_processes = <<>>
    /\ failure = "none"
    /\ NoHeap

\* the pids in the queues of the scheduler
Queued(s) == UNION {SeqToSet(s.queues[i]) : i \in 1..Len(s.queues)}

\* scheduler.add_process(p) for a READY process the scheduler does not hold
MlfqAdmitCall(p) ==
    /\ p \notin Queued(scheduler)
    /\ state[p] = "READY"
    /\ scheduler' = add_process(scheduler, p, cumulative_time_ran[p],
                                global_clock)
    /\ pc' = "add_process"
    /\ process' = p
    /\ UNCHANGED <<procVars, global_clock, ioVars, time_to_run, time_ran,
                   ready_processes, failure>>
    /\ UNCHANGED heapVars

\* process = scheduler.get_next_process(); process.state = RUNNING;
\* time_to_run = scheduler.get_alloted_time(process)
MlfqPickCall ==
    /\ has_processes(scheduler)
    /\ \A p \in QueuedPids : state[p] # "RUNNING"
    /\ LET r == get_next_process(scheduler, state, process_table,
                                 global_clock, 0)
       IN  /\ scheduler' = r.sched
           /\ process' = r.process
           /\ state' = [state EXCEPT ![r.process] = "RUNNING"]
           /\ time_to_run' = get_alloted_time(r.sched, r.process,
                                              time_to_completion[r.process])
    /\ pc' = "get_next_process"
    /\ UNCHANGED <<time_to_completion, cumulative_time_ran, io_probability,
                   initial_time_to_completion, process_table, global_clock,
                   ioVars, time_ran, ready_processes, failure>>
    /\ UNCHANGED heapVars

\* the picked process runs for part or all of its time slice, the clock
\* moves with it, and the process is READY again
MlfqRunCall(ran) ==
    /\ pc = "get_next_process"
    /\ ran \in 1..time_to_run
    /\ global_clock + ran <= MaxClock
    /\ cumulative_time_ran' =
           [cumulative_time_ran EXCEPT ![process] = @ + ran]
    /\ time_to_completion' = [time_to_completion EXCEPT ![process] = @ - ran]
    /\ global_clock' = increment_global_clock(global_clock, ran)
    /\ state' = [state EXCEPT ![process] = "READY"]
    /\ time_ran' = ran
    /\ pc' = "run_for"
    /\ UNCHANGED <<scheduler, io_probability, initial_time_to_completion,
                   process_table, ioVars, process, time_to_run,
                   ready_processes, failure>>
    /\ UNCHANGED heapVars

\* self.increment_global_clock(1) while nothing runs
MlfqTick ==
    /\ \A p \in QueuedPids : state[p] # "RUNNING"
    /\ global_clock < MaxClock
    /\ global_clock' = increment_global_clock(global_clock, IdleTick)
    /\ pc' = "tick"
    /\ UNCHANGED <<scheduler, procVars, ioVars, localVars, ready_processes,
                   failure>>
    /\ UNCHANGED heapVars

MlfqAdmit == \E p \in QueuedPids : MlfqAdmitCall(p)
MlfqRun == \E ran \in 1..MaxClock : MlfqRunCall(ran)

NextMlfq == MlfqAdmit \/ MlfqPickCall \/ MlfqRun \/ MlfqTick

SpecMlfq == InitMlfq /\ [][NextMlfq]_vars

(* ---------------------------------------------------------------------- *)
(* Claims about picks, quanta and the clock                                *)
(* ---------------------------------------------------------------------- *)
NotBoostDue(p) == ~BoostDue(p)

\* the processes queued below level 0 whose boost is due, from queue k down,
\* in the order of their queues
RECURSIVE DueFrom(_)
DueFrom(k) ==
    IF k > Len(scheduler.queues) THEN <<>>
    ELSE SelectSeq(scheduler.queues[k], BoostDue) \o DueFrom(k + 1)

\* the queues a pick works on: the due processes at the tail of level 0,
\* the others where they were
QueuesAfterBoost ==
    [k \in 1..Len(scheduler.queues) |->
        IF k = 1 THEN scheduler.queues[1] \o DueFrom(2)
        ELSE SelectSeq(scheduler.queues[k], NotBoostDue)]

\* C31: a pick of the MLFQ scheduler first moves every process queued below
\* level 0 whose clock - last_boost >= boost_threshold to the tail of level
\* 0, with time_in_level 0 and last_boost the clock, and leaves the others
\* in their queues in the same order; then it returns the head of the
\* highest-priority non-empty queue, so the processes of one level leave
\* in the order they entered it.
MlfqPickOrder ==
    [][scheduler.kind = "MLFQ" /\ pc' = "get_next_process" =>
          LET k == CHOOSE i \in 1..Len(QueuesAfterBoost) :
                       /\ QueuesAfterBoost[i] # <<>>
                       /\ \A j \in 1..(i - 1) : QueuesAfterBoost[j] = <<>>
          IN  /\ process' = Head(QueuesAfterBoost[k])
              /\ scheduler'.queues = [QueuesAfterBoost EXCEPT ![k] = Tail(@)]
              /\ \A pid \in Known :
                    IF pid \in SeqToSet(DueFrom(2))
                    THEN /\ scheduler'.process_levels[pid] = 0
                         /\ scheduler'.process_time_in_level[pid] = 0
                         /\ scheduler'.process_last_boost[pid] = global_clock
                    ELSE /\ scheduler'.process_levels[pid]
                                = scheduler.process_levels[pid]
                         /\ scheduler'.process_time_in_level[pid]
                                = scheduler.process_time_in_level[pid]
                         /\ scheduler'.process_last_boost[pid]
                                = scheduler.process_last_boost[pid]]_vars

\* a pick has just boosted two processes past one that stays at level 1:
\* the two are at level 0 in their old order, one of them has been returned
MlfqPickOrderWitness ==
    /\ scheduler.kind = "MLFQ" /\ pc = "get_next_process"
    /\ Len(scheduler.queues[1]) >= 1 /\ Len(scheduler.queues[2]) >= 1
    /\ scheduler.process_last_boost[process] = global_clock
    /\ scheduler.process_last_boost[scheduler.queues[1][1]] = global_clock
    /\ cumulative_time_ran[process] > 0
    /\ cumulative_time_ran[scheduler.queues[1][1]] > 0
    /\ cumulative_time_ran[scheduler.queues[2][1]] > 0

\* C32: the quantum the dispatcher gives a process picked by the CFS
\* scheduler is max(base_quantum // (n + 1), min_quantum), n being the
\* number of processes left in the tree after the pick; it is a positive
\* integer, never below min_quantum, and it is base_quantum when the
\* picked process was the only ready one.
CfsQuantum ==
    [][scheduler.kind = "CFS" /\ pc = "dispatch" /\ pc' = "run_for" =>
          LET n == Cardinality(scheduler'.virtual_tree)
          IN  /\ n = Cardinality({key \in scheduler.virtual_tree :
                                     state[key[2]] # "TERMINATED"}) - 1
              /\ time_to_run' = Max(scheduler.base_quantum \div (n + 1),
                                    scheduler.min_quantum)
              /\ time_to_run' \in Nat /\ time_to_run' >= 1
              /\ time_to_run' >= scheduler.min_quantum
              /\ n = 0 => time_to_run' = scheduler.base_quantum]_vars

\* one of three ready processes has been picked with base_quantum 10: two
\* are left in the tree and the quantum is 10 // 3 = 3
CfsQuantumWitness ==
    /\ scheduler.kind = "CFS" /\ pc = "run_for"
    /\ scheduler.base_quantum = 10 /\ scheduler.min_quantum = 2
    /\ Cardinality(scheduler.virtual_tree) = 2
    /\ time_to_run = 3

\* ---- a program that runs a second CPU after the first has finished ----
\* the work of the processes created for the second run
SecondWorks == {<<3>>, <<4, 4>>}

\* When run() has returned, the program creates new processes (Process
\* numbers them on from the last pid), a new scheduler and a new IOManager,
\* admits the processes and builds a second CPU.  CPU.__init__ stores the
\* scheduler and the I/O manager; global_clock is an attribute of the class.
SecondCpu ==
    /\ pc = "done"
    /\ 1 \in DOMAIN state
    /\ \E work \in SecondWorks, probability \in SeededProbabilities,
          s0 \in SeededSchedulers :
          LET created == Cardinality(DOMAIN state)
              ids == (created + 1)..(created + Len(work))
              st == [p \in ids |-> "READY"]
              cum == [p \in ids |-> 0]
          IN  /\ time_to_completion' = [p \in ids |-> work[p - created]]
              /\ initial_time_to_completion' = time_to_completion'
              /\ io_probability' = [p \in ids |-> probability]
              /\ cumulative_time_ran' = cum
              /\ state' = st
              /\ process_table' = process_table \cup ids
              /\ scheduler' =
                     AdmitAll(s0, [i \in 1..Len(work) |-> created + i], st,
                              cum, global_clock).sched
    /\ waiting_processes' = <<>>
    /\ next_free_time' = 0
    /\ pc' = "while"
    /\ process' = 0
    /\ time_to_run' = 0
    /\ time_ran' = 0
    /\ ready_processes' = <<>>
    /\ UNCHANGED <<global_clock, failure>>
    /\ UNCHANGED heapVars

NextTwoRuns == NextSeeded \/ SecondCpu

SpecTwoRuns == InitSeeded /\ [][NextTwoRuns]_vars

\* run() of a CPU is about to start: its processes are admitted and none of
\* them has run
RunStarts ==
    /\ pc = "while"
    /\ waiting_processes = <<>> /\ next_free_time = 0
    /\ \A p \in DOMAIN state :
          state[p] = "READY" /\ cumulative_time_ran[p] = 0

\* C33 as stated: the clock is 0 when run() starts, for every CPU of the
\* program, a second one run after the first has finished included; so
\* the MLFQ last_boost values of the admitted processes are 0 too.
ClockOriginAsStated ==
    RunStarts =>
        /\ global_clock = 0
        /\ scheduler.kind = "MLFQ" =>
              \A pid \in Known : scheduler.process_last_boost[pid] = 0

(* ---------------------------------------------------------------------- *)
(* Claims about the choices of the heap allocators                         *)
(* ---------------------------------------------------------------------- *)
\* the free regions a request of total bytes fits in
Candidates(total) ==
    {r \in SeqToSet(allocator.free_list) : r[2] >= total}

\* the region each policy allocates from
ChosenRegion(total) ==
    CHOOSE r \in Candidates(total) :
        \A q \in Candidates(total) :
            CASE allocator.kind = "FirstFit" -> r[1] <= q[1]
              [] allocator.kind = "BestFit" ->
                    r[2] < q[2] \/ (r[2] = q[2] /\ r[1] <= q[1])
              [] allocator.kind = "WorstFit" ->
                    r[2] > q[2] \/ (r[2] = q[2] /\ r[1] <= q[1])

\* the free list once total bytes are cut from the front of region r
CutFromFront(r, total) ==
    IF r[2] = total
    THEN SelectSeq(allocator.free_list, LAMBDA q : q # r)
    ELSE [i \in 1..Len(allocator.free_list) |->
             IF allocator.free_list[i] = r
             THEN <<r[1] + total, r[2] - total>>
             ELSE allocator.free_list[i]]

\* C34: with total = n + 8, first-fit allocates from the lowest-start region
\* with size >= total, best-fit from the smallest and worst-fit from the
\* largest such region, ties going to the lowest start; the block is cut
\* from the front of the chosen region: the pointer is its start + 8, the
\* region is removed on an exact fit and otherwise starts total bytes later
\* and is total bytes shorter.
FitPolicyChoice ==
    [][\A n \in RequestSizes :
          MallocCall(n) /\ allocator.kind \in FitKinds /\ failure' = "none" =>
              LET total == n + HEADER_SIZE
                  r == ChosenRegion(total)
              IN  /\ pointers' \ pointers \subseteq {r[1] + HEADER_SIZE}
                  /\ r[1] + HEADER_SIZE \in pointers'
                  /\ read_header(allocator'.memory, r[1]) = total
                  /\ allocator'.free_list = CutFromFront(r, total)]_vars

\* best-fit, arena 64: with (0, 32) and (48, 16) free, malloc(8) has taken
\* the smaller region behind the live blocks, not the first one
FitPolicyChoiceWitness ==
    /\ allocator.kind = "BestFit" /\ allocator.total_memory = 64
    /\ pc = "malloc" /\ failure = "none" /\ malloc_calls = 4
    /\ pointers = {40, 48, 56}
    /\ allocator.free_list = << <<0, 32>> >>

\* C35: the free list of a fit allocator is, after every malloc and every
\* free of a live pointer, sorted by strictly increasing start and fully
\* coalesced: consecutive regions a, b have a.start + a.size < b.start, so
\* the list is the list of the maximal free runs of the arena.
CanonicalFreeList ==
    allocator.kind \in FitKinds =>
        /\ \A i \in 1..Len(allocator.free_list) : allocator.free_list[i][2] > 0
        /\ \A i \in 1..(Len(allocator.free_list) - 1) :
              allocator.free_list[i][1] + allocator.free_list[i][2]
                  < allocator.free_list[i + 1][1]
        \* maximal runs: a byte next to a free region belongs to a live block
        /\ \A i \in 1..Len(allocator.free_list) :
              LET start == allocator.free_list[i][1]
                  end == start + allocator.free_list[i][2]
              IN  /\ start > 0 =>
                        \E b \in LiveBlocks : b[4] + b[5] = start
                  /\ end < allocator.total_memory =>
                        \E b \in LiveBlocks : b[4] = end

\* three blocks of 16 were cut from an arena of 64; the first and the last
\* have been freed, the last merging with the free tail, around the live
\* middle one
CanonicalFreeListWitness ==
    /\ allocator.kind \in FitKinds /\ allocator.total_memory = 64
    /\ pc = "free" /\ malloc_calls = 3
    /\ pointers = {24}
    /\ allocator.free_list = << <<0, 16>>, <<32, 32>> >>

\* the size classes b, 2b, 4b, ... up to the arena that hold a free block
NonEmptyClasses(b) ==
    {class \in DOMAIN allocator.free_lists :
        /\ allocator.free_lists[class] # <<>>
        /\ \E k \in 0..16 : class = b * (2 ^ k)}

\* the first non-empty class from b upwards
FirstClass(b) ==
    CHOOSE class \in NonEmptyClasses(b) :
        \A other \in NonEmptyClasses(b) : class <= other

\* the lowest address among the free blocks of a class
LowestAddress(class) ==
    CHOOSE a \in SeqToSet(allocator.free_lists[class]) :
        \A other \in SeqToSet(allocator.free_lists[class]) : a <= other

\* C36 as stated: a buddy malloc searches the classes b, 2b, 4b, ... for the
\* first non-empty free list and takes the lowest-addressed free block of
\* that class, whatever mallocs and frees came before.
BuddyChoiceAsStated ==
    [][\A n \in RequestSizes :
          MallocCall(n) /\ allocator.kind = "Buddy" /\ failure' = "none" =>
              pointers' \ pointers =
                  {LowestAddress(FirstClass(RoundedBlockSize(n))) + HEADER_SIZE}]_vars

\* the free blocks of a buddy allocator as <<size class, address>> pairs
BuddyFreeBlocks(a) ==
    UNION {{<<class, addr>> : addr \in SeqToSet(a.free_lists[class])} :
              class \in DOMAIN a.free_lists}

\* addr ^ size for a block aligned on its size: the other half of the
\* enclosing block of twice the size
BuddyAddress(addr, size) ==
    IF (addr \div size) % 2 = 0 THEN addr + size ELSE addr - size

\* the classes size, 2 * size, 4 * size, ... below limit
ClassesBelow(size, limit) ==
    {class \in 1..limit : class < limit /\ \E k \in 0..16 : class = size * (2 ^ k)}

\* every free block starts at a multiple of its class, and no block and
\* its buddy are both free in one class
BuddyAlignedCoalesced ==
    allocator.kind = "Buddy" =>
        \A block \in BuddyFreeBlocks(allocator) :
            /\ block[2] % block[1] = 0
            /\ <<block[1], BuddyAddress(block[2], block[1])>>
                   \notin BuddyFreeBlocks(allocator)

\* free(pointer) of a block of size b at address a takes out of the lists
\* the buddies of the blocks of sizes b, 2b, ..., S/2 that hold a, and
\* nothing else, and puts in the one block of size S that holds a
BuddyMergeStep ==
    \A pointer \in pointers :
        FreeCall(pointer) /\ allocator.kind = "Buddy" =>
            LET a == pointer - HEADER_SIZE
                b == read_header(allocator.memory, a)
                before == BuddyFreeBlocks(allocator)
                after == BuddyFreeBlocks(allocator')
            IN  \E S \in DOMAIN allocator'.free_lists :
                    /\ S >= b
                    /\ after \ before = {<<S, a - (a % S)>>}
                    /\ before \ after =
                           {<<class, BuddyAddress(a - (a % class), class)>> :
                               class \in ClassesBelow(b, S)}

\* C37: in every reachable state of a buddy allocator every free block of
\* class s starts at a multiple of s and no block and its buddy are both
\* free in one class; free merges the block of size b at a only with the
\* block at a XOR b of the same size, level by level.
BuddyFreeLists == []BuddyAlignedCoalesced /\ [][BuddyMergeStep]_vars

\* a free that merged twice: the only live block of an arena of 32 bytes,
\* 8 bytes large, is freed and the arena is one block again
BuddyFreeListsWitness ==
    /\ allocator.kind = "Buddy"
    /\ allocator.total_memory = 32
    /\ pc = "free"
    /\ malloc_calls = 1
    /\ pointers = {}
    /\ read_header(allocator.memory, 0) = 8
    /\ BuddyFreeBlocks(allocator) = {<<32, 0>>}

\* malloc(n) of a buddy allocator that succeeds: the block of size b, the
\* rounded size, is at a multiple a of b, has b in its header and is
\* returned as a + 8; the block taken, of size S, leaves the lists and one
\* block of each size b, 2b, ..., S/2 enters them, at a + b, ..., a + S/2
BuddyMallocStep(n) ==
    LET b == RoundedBlockSize(n)
        before == BuddyFreeBlocks(allocator)
        after == BuddyFreeBlocks(allocator')
    IN  \E a \in 0..allocator.total_memory :
            /\ pointers' \ pointers = {a + HEADER_SIZE}
            /\ a % b = 0
            /\ read_header(allocator'.memory, a) = b
            /\ \E S \in DOMAIN allocator.free_lists :
                  /\ S >= b
                  /\ before \ after = {<<S, a>>}
                  /\ after \ before =
                         {<<class, a + class>> : class \in ClassesBelow(b, S)}

\* the first malloc(1) in an arena of 64 bytes returns 8 and leaves free
\* blocks of sizes 16 and 32
BuddyMallocExample ==
    allocator.total_memory = 64 /\ malloc_calls = 0 =>
        /\ pointers' = {8}
        /\ BuddyFreeBlocks(allocator') = {<<16, 16>>, <<32, 32>>}

\* C38: a buddy malloc(n) allocates a block of size b, the smallest power of
\* two >= n + 8, at a multiple a of b, records b in the header at a and
\* returns a + 8; a block taken of size S > b adds exactly one free block at
\* each size b, 2b, ..., S/2, at a + b, a + 2b, ..., a + S/2; in an arena of
\* 64 bytes malloc(1) returns 8 and leaves free blocks of sizes 16 and 32.
BuddyMallocResult ==
    [][\A n \in RequestSizes :
          MallocCall(n) /\ allocator.kind = "Buddy" /\ failure' = "none" =>
              /\ BuddyMallocStep(n)
              /\ n = 1 => BuddyMallocExample]_vars

\* the example of the claim has happened
BuddyMallocResultWitness ==
    /\ allocator.kind = "Buddy"
    /\ allocator.total_memory = 64
    /\ pc = "malloc"
    /\ malloc_calls = 1
    /\ pointers = {8}
    /\ read_header(allocator.memory, 0) = 16
    /\ BuddyFreeBlocks(allocator) = {<<16, 16>>, <<32, 32>>}

\* how many entries of a list hold p
Occurrences(list, p) == Cardinality({i \in 1..Len(list) : list[i] = p})

\* how many entries of the scheduler's ready structure hold p
RECURSIVE OccurrencesInQueues(_, _)
OccurrencesInQueues(queues, p) ==
    IF queues = <<>> THEN 0
    ELSE Occurrences(Head(queues), p) + OccurrencesInQueues(Tail(queues), p)

TimesReady(s, p) ==
    CASE s.kind \in {"Simple", "RoundRobin"} -> Occurrences(s.queue, p)
      [] s.kind = "MLFQ" -> OccurrencesInQueues(s.queues, p)
      [] s.kind = "Lottery" ->
            Cardinality({i \in 1..Len(s.processes) : s.processes[i][1] = p})
      [] s.kind = "CFS" -> Cardinality({k \in s.virtual_tree : k[2] = p})

\* how many entries of the I/O wait list hold p
TimesWaiting(p) ==
    Cardinality({i \in 1..Len(waiting_processes) : waiting_processes[i][1] = p})

\* p is the process run() has picked and not yet routed
BeingDispatched(p) ==
    IF pc \in {"run_for", "route"} /\ process = p THEN 1 ELSE 0

\* C39: in every reachable state of CPU.run() each process that has not
\* terminated is in exactly one place: once in the ready structure of the
\* scheduler, or once in the I/O wait list, or being dispatched; a process
\* that has terminated is neither in the ready structure nor in the list.
NoProcessHeldTwice ==
    \A p \in DOMAIN state :
        IF state[p] = "TERMINATED"
        THEN TimesReady(scheduler, p) = 0 /\ TimesWaiting(p) = 0
        ELSE TimesReady(scheduler, p) + TimesWaiting(p) + BeingDispatched(p) = 1

\* one process waits for the device, the other has just run its quantum and
\* is about to be admitted again
NoProcessHeldTwiceWitness ==
    /\ pc = "route"
    /\ process = 2
    /\ state[2] = "RUNNING"
    /\ TimesWaiting(1) = 1
    /\ TimesReady(scheduler, 2) = 0
    /\ cumulative_time_ran[2] > 0

\* C40: in every reachable state of a run under the lottery scheduler the
\* ticket table and the process map have the same pids, each once, and
\* total_tickets is the sum of the ticket counts of the held processes,
\* which is 0 when none is held.
LotteryAccounting ==
    scheduler.kind = "Lottery" =>
        /\ OrdKeys(scheduler.processes) = OrdKeys(scheduler.tickets)
        /\ Cardinality(OrdKeys(scheduler.processes)) = Len(scheduler.processes)
        /\ Cardinality(OrdKeys(scheduler.tickets)) = Len(scheduler.tickets)
        /\ scheduler.total_tickets =
               RunningSum(scheduler.tickets, Len(scheduler.tickets))
        /\ scheduler.processes = <<>> => scheduler.total_tickets = 0

\* both processes have run, have been admitted again, one of them after
\* I/O, and hold ten tickets each
LotteryAccountingWitness ==
    /\ scheduler.kind = "Lottery"
    /\ pc = "dispatch"
    /\ OrdKeys(scheduler.processes) = {1, 2}
    /\ scheduler.total_tickets = 2 * DefaultTickets
    /\ cumulative_time_ran[1] > 0
    /\ cumulative_time_ran[2] > 0
    /\ ready_processes # <<>>

============================================================================
